---- MODULE Spec2Model ----
(***************************************************************************)
(* Model of the acquisition / synchronisation pipeline of src/dept_map.py: *)
(* the inertial ingestion thread (imu_reader), the frame thread            *)
(* (camera_loop) and the Flask query handlers, all running against the     *)
(* shared globals imu_buffer, synced_imu, latest_rgb, latest_depth_float   *)
(* and the lock imu_lock.                                                  *)
(*                                                                         *)
(* Time.  A value in seconds (a Python float) is represented by an integer *)
(* number of ticks of 1/TicksPerSec second; device timestamps stay in the  *)
(* device's microseconds.  Every step that writes or reads a shared        *)
(* variable is an action of its own, so that every interleaving of the     *)
(* threads the interpreter can produce is a behaviour of the model.        *)
(*                                                                         *)
(* depth_to_distance (src/dept_map.py lines 71-73) is an operator over     *)
(* exact rationals, applied under SpecDepth.  The collision sound server   *)
(* of src/soundloc.py (request handlers, watchdog, _state_lock) has its    *)
(* own variables and runs under SpecSound.  The period of camera_loop      *)
(* (work, then time.sleep(SLEEP_TIME)) is timed by its own clock under     *)
(* SpecPeriod.  The GUI of src/scan-cam.py has two models: one preview     *)
(* widget with its capture threads (SpecPreview) and the scanner with its  *)
(* scan threads (SpecScan).                                                *)
(***************************************************************************)
EXTENDS Integers, Sequences, FiniteSets, TLC

\* ------------------------------------------------------------------ bounds
\* Resolution of the model's seconds: ticks per second.
TicksPerSec == 2
\* deque(maxlen=...) of imu_buffer (2000 in the source) and synced_imu (100).
C_imu == 2
C_hist == 1
\* Pixels of the depth maps given to depth_to_distance (518 x 518 in the source).
MaxPixels == 3
\* Resolution of the clock camera_loop's period is measured with: units per
\* SLEEP_TIME.
PeriodUnits == 2
\* Samples the ingestion thread appends, and frames the camera delivers: one more
\* than the deque holds, so that the oldest entry is evicted.
MaxRecords == C_imu + 1
MaxCycles == C_hist + 1

\* Clicks on a preview widget's button, and capture threads a widget starts.
MaxToggles == 5
MaxCaptureThreads == 2
\* Scans started from the GUI, and camera indices a scan tests (max_index, 10 by
\* default in the source).
MaxScans == 2
MaxIndex == 2

\* --------------------------------------------------------------- constants
\* delta_sec = (ts_raw - imu_start_us) / 1_000_000.0
US_PER_SEC == 1000000
\* MIN_DIST, MAX_DIST (lines 15-16), in metres
MIN_DIST == 1
MAX_DIST == 5
\* COLLISION_TTL (src/soundloc.py line 11), in seconds
COLLISION_TTL == 2
\* Raw depth values are counted in units of the 1e-8 of line 72: EPS is that 1e-8,
\* RAW_ONE is 1.0
EPS == 1
RAW_ONE == 100000000
\* 0 < timestamp - sample[0] < 1.0 : the window, in ticks
WINDOW == 1 * TicksPerSec
\* The wall clock runs from 0 to MaxTime ticks (one second), and the device clock over
\* the same span
MaxTime == TicksPerSec
\* SLEEP_TIME (line 17), 1/30 s, in units of the period clock
SLEEP_TIME == PeriodUnits
\* The period clock runs over three periods
MaxLoopClock == 3 * SLEEP_TIME
\* The clock of the audio process runs long enough for a contact to expire after a
\* second update
MaxSndTime == COLLISION_TTL * TicksPerSec + 2

VARIABLES
  now,                \* the wall clock, time.time(), in ticks
  \* ---- imu_reader
  pc_imu,             \* "start" | "read" | "parse" | "lock" | "append"
  unix_start_time,    \* local of imu_reader, set once at line 31
  imu_start_us,       \* local of imu_reader: <<>> is None, <<t>> is t
  line,               \* parts of the record just read
  ts_unix, vals,      \* locals of imu_reader: the sample being appended
  \* ---- shared
  imu_lock,           \* "free" or the name of the thread holding it
  imu_buffer,         \* deque(maxlen=C_imu) of samples <<ts, ax, ay, az, gx, gy, gz>>
  synced_imu,         \* deque(maxlen=C_hist) of bundles <<timestamp, samples>>
  latest_rgb, latest_depth_float, latest_imu_buffer, last_imu_ts,
  \* ---- camera_loop
  pc_cam,
  n_frames,           \* frames delivered by cap.read(): the number of the cycle
  frame,              \* local: the frame of this iteration (its number)
  dist,               \* local: the distance map of this iteration
  timestamp,          \* local: time.time() of line 102
  imu_list,           \* local: the snapshot of line 106
  synced,             \* local: the windowed samples of line 109
  \* ---- the server: the main thread and the query handlers
  pc_main,            \* "init": before line 124 | "serving": app.run (line 181)
  pc_q, resp,
  raw_imu_list,       \* local imu_list of imu_raw: the dicts rendered so far
  \* ---- depth_to_distance
  pc_depth,           \* "call" | "returned" | "encoded"
  depth_map,          \* the argument: the raw depth values of a frame, in units of 1e-8
  distance,           \* the returned array
  depth_16,           \* depth_16 of frame_depth_raw: the array in uint16 millimetres
  \* ---- the period of camera_loop
  loop_clock,         \* time.time(), in units of SLEEP_TIME / PeriodUnits
  pc_loop,            \* "read": line 87 | "work": lines 91-114 | "sleep": line 116
  iter_start,         \* the time at which the iteration in progress began (line 87)
  sleep_start,        \* the time at which time.sleep was called
  sleep_for,          \* the argument of time.sleep
  h_last,             \* history: start, work time and oversleep of the cycle before
  \* ---- src/soundloc.py
  snd_now,            \* the wall clock of the audio process, time.time(), in ticks
  latest,             \* _latest: state, hit, nearest, _received_at
  is_playing,         \* _is_playing
  src_playing,        \* the OpenAL source: TRUE after src.play(), FALSE after src.pause()
  src_pos,            \* the OpenAL source: what it was last moved toward
  state_lock,         \* _state_lock: "free" or the name of the thread holding it
  pc_wd, wd_now,      \* _watchdog: its position and its local now
  pc_req,             \* the request thread: "idle" | "route" | "lock" | "apply"
  http,               \* the request it has received
  req,                \* what it is to do under _state_lock
  snd_resp,           \* its last response
  \* ---- src/scan-cam.py, one VideoPreviewWidget
  available,          \* self.source.is_available
  running,            \* self.running
  cap,                \* self.cap: "None" | "open" | "closed" (isOpened() is False)
  pc_gui,             \* the Tk thread in the widget: "idle" | "release" | "clear" |
                      \* "open" | "spawn"
  pc_capture,         \* each capture_loop thread: "unborn" | "test" | "test_cap" |
                      \* "test_open" | "read" | "show" | "sleep" | "done" | "crashed"
  toggles,            \* clicks so far
  \* ---- src/scan-cam.py, the VideoScanner and the VideoScannerGUI
  scanning,           \* scanner.scanning
  lists,              \* the list objects made by line 112 (0) and by line 218 of each
                      \* scan: their entries [index, is_available], in order
  sources,            \* scanner.sources: the list object it refers to
  scan_btn, stop_btn, \* the state of the two buttons: "normal" | "disabled"
  preview_widgets,    \* the source index of each widget of gui.preview_widgets
  scan,               \* each scan thread: pc ("unborn" | "reset" | "flag" | "check" |
                      \* "probe" | "append" | "finish" | "return" | "returned" |
                      \* "done"), and its locals index, source.is_available and the
                      \* list scan_sources returned
  h_early,            \* history: the scan left its loop at line 226
  h_stop_for,         \* history: stop_scan was called while the scan was under way
  \* ---- history (not program state)
  h_appended,         \* every sample ever appended to imu_buffer, in order
  h_dropped,          \* "dropped": a malformed record was dropped since the last append;
                      \* "recovered": the append just made followed such a drop; else "no"
  h_bundle_cycle,     \* number of the cycle that appended synced_imu[-1]; 0: none
  h_depth_published,  \* line 95 has been executed at least once
  h_read_failed       \* the last cap.read() of camera_loop returned no frame

imu_vars == <<pc_imu, unix_start_time, imu_start_us, line, ts_unix, vals>>
cam_vars == <<pc_cam, n_frames, frame, dist, timestamp, imu_list, synced>>
pub_vars == <<synced_imu, latest_rgb, latest_depth_float, latest_imu_buffer, last_imu_ts>>
q_vars   == <<pc_main, pc_q, resp, raw_imu_list>>
h_vars   == <<h_appended, h_dropped, h_bundle_cycle, h_depth_published, h_read_failed>>
d_vars   == <<pc_depth, depth_map, distance, depth_16>>
t_vars   == <<loop_clock, pc_loop, iter_start, sleep_start, sleep_for, h_last>>
s_vars   == <<snd_now, latest, is_playing, src_playing, src_pos, state_lock, pc_wd, wd_now,
             pc_req, http, req, snd_resp>>
pv_vars  == <<available, running, cap, pc_gui, pc_capture, toggles>>
\* everything of src/scan-cam.py
sc_vars  == <<scanning, lists, sources, scan_btn, stop_btn, preview_widgets, scan, h_early,
             h_stop_for>>
g_vars   == <<pv_vars, sc_vars>>
\* everything of src/dept_map.py
dm_vars  == <<now, imu_vars, imu_lock, imu_buffer, pub_vars, cam_vars, q_vars, h_vars, d_vars,
             t_vars>>
vars == <<dm_vars, s_vars, g_vars>>

\* ------------------------------------------------------------------ values
\* Python's None and the published objects, as tagged records:
\* f is the number of the frame the object was computed from.
None    == [k |-> "None", f |-> 0]
Jpeg(fr)    == [k |-> "jpg", f |-> fr]
DistMap(fr) == [k |-> "dist", f |-> fr]

\* One field of a record read from the serial port: text that float() accepts, or not.
Num(n) == [num |-> TRUE, v |-> n]
Junk   == [num |-> FALSE, v |-> 0]

Min(a, b) == IF a < b THEN a ELSE b

\* a / b rounded to the nearest integer (b > 0): a float quotient on the model's grid
RoundDiv(a, b) == (2 * a + b) \div (2 * b)

\* a deque that never evicts
DequeAppendUnbounded(d, x, m) == d \o <<x>>

\* a full deque that keeps what it holds and drops the new entry
DequeAppendDropNew(d, x, m) ==
  IF Len(d) >= m THEN d ELSE d \o <<x>>

\* deque(maxlen=m).append(x)
DequeAppend(d, x, m) ==
  IF Len(d) >= m THEN Tail(d) \o <<x>> ELSE d \o <<x>>

\* ------------------------------------------------------------ environment
\* Device timestamps (microseconds) the sensor may send: one tick apart, in any order
RawTs == { 0, US_PER_SEC \div TicksPerSec }

Channels == <<Num(1), Num(2), Num(3), Num(4), Num(5), Num(6)>>

WellFormedLines == { <<Num(r)>> \o Channels : r \in RawTs }

\* 5 fields, a non-numeric timestamp, a non-numeric channel
MalformedLines ==
  { SubSeq(<<Num(0)>> \o Channels, 1, 5),
    <<Junk>> \o Channels,
    <<Num(0), Num(1), Num(2), Junk, Num(4), Num(5), Num(6)>> }

Lines == WellFormedLines \cup MalformedLines

NoLine == <<>>

\* the wall clock advances
Tick ==
  /\ now < MaxTime
  /\ now' = now + 1
  /\ UNCHANGED <<d_vars, s_vars, t_vars, g_vars, imu_vars, imu_lock, imu_buffer, pub_vars, cam_vars, q_vars, h_vars>>

\* ------------------------------------------------------------- imu_reader
\* float(p) for every p of parts succeeds
AllNumeric(parts) == \A i \in 1..Len(parts) : parts[i].num

\* a parser that takes any record of numbers, whatever its length
ParsesAnyLength(parts) == Len(parts) >= 2 /\ AllNumeric(parts)

\* lines 37-39: the record parses
Parses(parts) == Len(parts) = 7 /\ AllNumeric(parts)

\* line 46: delta_sec, in ticks
DeltaSec(ts_raw, start_us) == RoundDiv((ts_raw - start_us) * TicksPerSec, US_PER_SEC)

\* line 39: vals = tuple(map(float, parts[1:]))
ParseVals(parts) == [i \in 1..(Len(parts) - 1) |-> parts[i + 1].v]

\* lines 29-31: the thread starts
ImuStart ==
  /\ pc_imu = "start"
  /\ unix_start_time' = now
  /\ imu_start_us' = <<>>
  /\ pc_imu' = "read"
  /\ UNCHANGED <<line, ts_unix, vals>>
  /\ UNCHANGED <<now, d_vars, s_vars, t_vars, g_vars, imu_lock, imu_buffer, pub_vars, cam_vars, q_vars, h_vars>>

\* line 35: readline() returns a record
ImuRead ==
  /\ pc_imu = "read"
  /\ Len(h_appended) < MaxRecords
  /\ \E l \in Lines : line' = l
  /\ pc_imu' = "parse"
  /\ h_dropped' = IF h_dropped = "recovered" THEN "no" ELSE h_dropped
  /\ UNCHANGED <<unix_start_time, imu_start_us, ts_unix, vals>>
  /\ UNCHANGED <<now, d_vars, s_vars, t_vars, g_vars, imu_lock, imu_buffer, pub_vars, cam_vars, q_vars>>
  /\ UNCHANGED <<h_appended, h_bundle_cycle, h_depth_published, h_read_failed>>

\* line 35 raises (serial error): lines 54-55 print it and the loop goes on
ImuReadError ==
  /\ pc_imu = "read"
  /\ UNCHANGED <<pc_imu, unix_start_time, imu_start_us, line, ts_unix, vals>>
  /\ UNCHANGED <<now, d_vars, s_vars, t_vars, g_vars, imu_lock, imu_buffer, pub_vars, cam_vars, q_vars, h_vars>>

\* Where the loop goes when a record is dropped (line 37 false) or float() raised
\* (lines 54-55)
ImuAfterBadRecord == "read"

\* the parse that takes every record's timestamp as the anchor (line 41 always true)
ImuParseReanchor ==
  /\ pc_imu = "parse"
  /\ IF Parses(line)
       THEN LET ts_raw == line[1].v
            IN /\ imu_start_us' = <<ts_raw>>
               /\ ts_unix' = unix_start_time + DeltaSec(ts_raw, ts_raw)
               /\ vals' = ParseVals(line)
               /\ pc_imu' = "lock"
               /\ UNCHANGED <<line, h_dropped>>
       ELSE /\ pc_imu' = ImuAfterBadRecord
            /\ line' = NoLine
            /\ h_dropped' = "dropped"
            /\ UNCHANGED <<imu_start_us, ts_unix, vals>>
  /\ UNCHANGED <<unix_start_time, h_appended, h_bundle_cycle, h_depth_published, h_read_failed>>
  /\ UNCHANGED <<now, d_vars, s_vars, t_vars, g_vars, imu_lock, imu_buffer, pub_vars, cam_vars, q_vars>>

\* lines 36-47
ImuParse ==
  /\ pc_imu = "parse"
  /\ IF Parses(line)
       THEN LET ts_raw == line[1].v
                start  == IF imu_start_us = <<>> THEN ts_raw ELSE imu_start_us[1]
            IN /\ imu_start_us' = <<start>>
               /\ ts_unix' = unix_start_time + DeltaSec(ts_raw, start)
               /\ vals' = ParseVals(line)
               /\ pc_imu' = "lock"
               /\ UNCHANGED <<line, h_dropped>>
       ELSE /\ pc_imu' = ImuAfterBadRecord
            /\ line' = NoLine
            /\ h_dropped' = "dropped"
            /\ UNCHANGED <<imu_start_us, ts_unix, vals>>
  /\ UNCHANGED <<unix_start_time, h_appended, h_bundle_cycle, h_depth_published, h_read_failed>>
  /\ UNCHANGED <<now, d_vars, s_vars, t_vars, g_vars, imu_lock, imu_buffer, pub_vars, cam_vars, q_vars>>

\* line 51: with imu_lock (acquire)
ImuAcquire ==
  /\ pc_imu = "lock"
  /\ imu_lock = "free"
  /\ imu_lock' = "imu"
  /\ pc_imu' = "append"
  /\ UNCHANGED <<unix_start_time, imu_start_us, line, ts_unix, vals>>
  /\ UNCHANGED <<now, d_vars, s_vars, t_vars, g_vars, imu_buffer, pub_vars, cam_vars, q_vars, h_vars>>

\* line 52: the sample that is appended
ImuSample == <<ts_unix>> \o vals

\* the append without the release at the end of the with block
ImuAppendKeepLock ==
  /\ pc_imu = "append"
  /\ imu_buffer' = DequeAppend(imu_buffer, ImuSample, C_imu)
  /\ h_appended' = Append(h_appended, ImuSample)
  /\ pc_imu' = "read"
  /\ line' = NoLine
  /\ h_dropped' = IF h_dropped = "dropped" THEN "recovered" ELSE "no"
  /\ UNCHANGED <<unix_start_time, imu_start_us, ts_unix, vals, imu_lock>>
  /\ UNCHANGED <<now, d_vars, s_vars, t_vars, g_vars, pub_vars, cam_vars, q_vars, h_bundle_cycle, h_depth_published, h_read_failed>>

\* line 52, and the release at the end of the with block
ImuAppend ==
  /\ pc_imu = "append"
  /\ imu_buffer' = DequeAppend(imu_buffer, ImuSample, C_imu)
  /\ h_appended' = Append(h_appended, ImuSample)
  /\ imu_lock' = "free"
  /\ pc_imu' = "read"
  /\ line' = NoLine
  /\ h_dropped' = IF h_dropped = "dropped" THEN "recovered" ELSE "no"
  /\ UNCHANGED <<unix_start_time, imu_start_us, ts_unix, vals>>
  /\ UNCHANGED <<now, d_vars, s_vars, t_vars, g_vars, pub_vars, cam_vars, q_vars, h_bundle_cycle, h_depth_published, h_read_failed>>

ImuNext == ImuStart \/ ImuRead \/ ImuReadError \/ ImuParse \/ ImuAcquire \/ ImuAppend

\* ------------------------------------------------------------ camera_loop
\* lines 93-94: the distance map of a frame (its values: DepthToDistance)
DistanceOf(fr) == DistMap(fr)

\* line 98: cv2.imencode('.jpg', frame), tobytes()
EncodeJpeg(fr) == Jpeg(fr)

\* the window with its edges included
InWindowClosed(T, s) == 0 <= T - s[1] /\ T - s[1] <= WINDOW

\* the window taken after the frame instead of before it
InWindowAfter(T, s) == 0 < s[1] - T /\ s[1] - T < WINDOW

\* line 109: the samples strictly before the frame and less than 1.0 s older
InWindow(T, s) == 0 < T - s[1] /\ T - s[1] < WINDOW

Synced(list, T) == SelectSeq(list, LAMBDA s : InWindow(T, s))

\* line 87: cap.read() returns a frame
CamRead ==
  /\ pc_cam = "read"
  /\ n_frames < MaxCycles
  /\ n_frames' = n_frames + 1
  /\ frame' = n_frames + 1
  /\ pc_cam' = "infer"
  /\ h_read_failed' = FALSE
  /\ UNCHANGED <<dist, timestamp, imu_list, synced>>
  /\ UNCHANGED <<now, d_vars, s_vars, t_vars, g_vars, imu_vars, imu_lock, imu_buffer, pub_vars, q_vars>>
  /\ UNCHANGED <<h_appended, h_dropped, h_bundle_cycle, h_depth_published>>

\* a failed read that is followed by the sleep of line 116
CamReadFailSleeps ==
  /\ pc_cam = "read"
  /\ frame' = 0
  /\ pc_cam' = "sleep"
  /\ h_read_failed' = TRUE
  /\ UNCHANGED <<n_frames, dist, timestamp, imu_list, synced>>
  /\ UNCHANGED <<now, d_vars, s_vars, t_vars, g_vars, imu_vars, imu_lock, imu_buffer, pub_vars, q_vars>>
  /\ UNCHANGED <<h_appended, h_dropped, h_bundle_cycle, h_depth_published>>

\* lines 87-89: cap.read() returns no frame: continue
CamReadFail ==
  /\ pc_cam = "read"
  /\ frame' = 0
  /\ h_read_failed' = TRUE
  /\ UNCHANGED <<pc_cam, n_frames, dist, timestamp, imu_list, synced>>
  /\ UNCHANGED <<now, d_vars, s_vars, t_vars, g_vars, imu_vars, imu_lock, imu_buffer, pub_vars, q_vars>>
  /\ UNCHANGED <<h_appended, h_dropped, h_bundle_cycle, h_depth_published>>

\* Where camera_loop is after an exception of lines 91-99: the loop has no handler,
\* the exception ends the thread
CamAfterException == "dead"

\* lines 91-95: inference, conversion, and the first published field
CamInfer ==
  /\ pc_cam = "infer"
  /\ dist' = DistanceOf(frame)
  /\ latest_depth_float' = DistanceOf(frame)
  /\ h_depth_published' = TRUE
  /\ pc_cam' = "encode"
  /\ UNCHANGED <<n_frames, frame, timestamp, imu_list, synced>>
  /\ UNCHANGED <<synced_imu, latest_rgb, latest_imu_buffer, last_imu_ts>>
  /\ UNCHANGED <<now, d_vars, s_vars, t_vars, g_vars, imu_vars, imu_lock, imu_buffer, q_vars>>
  /\ UNCHANGED <<h_appended, h_dropped, h_bundle_cycle, h_read_failed>>

\* lines 91-93 raise (resize or estimate_depth fails)
CamInferRaise ==
  /\ pc_cam = "infer"
  /\ pc_cam' = CamAfterException
  /\ UNCHANGED <<n_frames, frame, dist, timestamp, imu_list, synced>>
  /\ UNCHANGED <<now, d_vars, s_vars, t_vars, g_vars, imu_vars, imu_lock, imu_buffer, pub_vars, q_vars, h_vars>>

\* lines 98-99: encoding, and the second published field
CamEncode ==
  /\ pc_cam = "encode"
  /\ latest_rgb' = EncodeJpeg(frame)
  /\ pc_cam' = "stamp"
  /\ UNCHANGED <<n_frames, frame, dist, timestamp, imu_list, synced>>
  /\ UNCHANGED <<synced_imu, latest_depth_float, latest_imu_buffer, last_imu_ts>>
  /\ UNCHANGED <<now, d_vars, s_vars, t_vars, g_vars, imu_vars, imu_lock, imu_buffer, q_vars, h_vars>>

\* line 98 raises
CamEncodeRaise ==
  /\ pc_cam = "encode"
  /\ pc_cam' = CamAfterException
  /\ UNCHANGED <<n_frames, frame, dist, timestamp, imu_list, synced>>
  /\ UNCHANGED <<now, d_vars, s_vars, t_vars, g_vars, imu_vars, imu_lock, imu_buffer, pub_vars, q_vars, h_vars>>

\* line 102: timestamp = time.time()
CamStamp ==
  /\ pc_cam = "stamp"
  /\ timestamp' = now
  /\ pc_cam' = "lock"
  /\ UNCHANGED <<n_frames, frame, dist, imu_list, synced>>
  /\ UNCHANGED <<now, d_vars, s_vars, t_vars, g_vars, imu_vars, imu_lock, imu_buffer, pub_vars, q_vars, h_vars>>

\* the with block entered without taking imu_lock
CamEnterUnlocked ==
  /\ pc_cam = "lock"
  /\ pc_cam' = "copy"
  /\ UNCHANGED <<n_frames, frame, dist, timestamp, imu_list, synced>>
  /\ UNCHANGED <<now, d_vars, s_vars, t_vars, g_vars, imu_vars, imu_lock, imu_buffer, pub_vars, q_vars, h_vars>>

\* line 105: with imu_lock (acquire)
CamAcquire ==
  /\ pc_cam = "lock"
  /\ imu_lock = "free"
  /\ imu_lock' = "cam"
  /\ pc_cam' = "copy"
  /\ UNCHANGED <<n_frames, frame, dist, timestamp, imu_list, synced>>
  /\ UNCHANGED <<now, d_vars, s_vars, t_vars, g_vars, imu_vars, imu_buffer, pub_vars, q_vars, h_vars>>

\* the copy without the release: the lock stays with camera_loop through the
\* following camera read and inference
CamCopyKeepLock ==
  /\ pc_cam = "copy"
  /\ imu_list' = imu_buffer
  /\ pc_cam' = "filter"
  /\ UNCHANGED <<n_frames, frame, dist, timestamp, synced>>
  /\ UNCHANGED <<now, d_vars, s_vars, t_vars, g_vars, imu_vars, imu_lock, imu_buffer, pub_vars, q_vars, h_vars>>

\* line 106: imu_list = list(imu_buffer), and the release at the end of the with block
CamCopy ==
  /\ pc_cam = "copy"
  /\ imu_list' = imu_buffer
  /\ imu_lock' = "free"
  /\ pc_cam' = "filter"
  /\ UNCHANGED <<n_frames, frame, dist, timestamp, synced>>
  /\ UNCHANGED <<now, d_vars, s_vars, t_vars, g_vars, imu_vars, imu_buffer, pub_vars, q_vars, h_vars>>

\* the window written into the list latest_imu_buffer already names
\* (latest_imu_buffer[:] = synced), which is the list of the last bundle
CamFilterInPlace ==
  /\ pc_cam = "filter"
  /\ synced' = Synced(imu_list, timestamp)
  /\ latest_imu_buffer' = Synced(imu_list, timestamp)
  /\ synced_imu' =
       IF synced_imu = <<>> THEN synced_imu
       ELSE [synced_imu EXCEPT ![Len(synced_imu)][2] = Synced(imu_list, timestamp)]
  /\ pc_cam' = "hist"
  /\ UNCHANGED <<n_frames, frame, dist, timestamp, imu_list>>
  /\ UNCHANGED <<latest_rgb, latest_depth_float, last_imu_ts>>
  /\ UNCHANGED <<now, d_vars, s_vars, t_vars, g_vars, imu_vars, imu_lock, imu_buffer, q_vars, h_vars>>

\* lines 109-112: the window, and latest_imu_buffer
CamFilter ==
  /\ pc_cam = "filter"
  /\ synced' = Synced(imu_list, timestamp)
  /\ latest_imu_buffer' = Synced(imu_list, timestamp)
  /\ pc_cam' = "hist"
  /\ UNCHANGED <<n_frames, frame, dist, timestamp, imu_list>>
  /\ UNCHANGED <<synced_imu, latest_rgb, latest_depth_float, last_imu_ts>>
  /\ UNCHANGED <<now, d_vars, s_vars, t_vars, g_vars, imu_vars, imu_lock, imu_buffer, q_vars, h_vars>>

\* line 113: synced_imu.append((timestamp, synced))
CamAppendHist ==
  /\ pc_cam = "hist"
  /\ synced_imu' = DequeAppend(synced_imu, <<timestamp, synced>>, C_hist)
  /\ h_bundle_cycle' = frame
  /\ pc_cam' = "last"
  /\ UNCHANGED <<n_frames, frame, dist, timestamp, imu_list, synced>>
  /\ UNCHANGED <<latest_rgb, latest_depth_float, latest_imu_buffer, last_imu_ts>>
  /\ UNCHANGED <<now, d_vars, s_vars, t_vars, g_vars, imu_vars, imu_lock, imu_buffer, q_vars>>
  /\ UNCHANGED <<h_appended, h_dropped, h_depth_published, h_read_failed>>

\* line 114: last_imu_ts = timestamp
CamSetLast ==
  /\ pc_cam = "last"
  /\ last_imu_ts' = timestamp
  /\ pc_cam' = "sleep"
  /\ UNCHANGED <<n_frames, frame, dist, timestamp, imu_list, synced>>
  /\ UNCHANGED <<synced_imu, latest_rgb, latest_depth_float, latest_imu_buffer>>
  /\ UNCHANGED <<now, d_vars, s_vars, t_vars, g_vars, imu_vars, imu_lock, imu_buffer, q_vars, h_vars>>

\* line 116: time.sleep(SLEEP_TIME), and back to line 86.  The locals of the
\* iteration are dead here (each is assigned before it is read again): they are
\* reset, which keeps equal states equal.
CamSleep ==
  /\ pc_cam = "sleep"
  /\ pc_cam' = "read"
  /\ frame' = 0
  /\ dist' = None
  /\ timestamp' = 0
  /\ imu_list' = <<>>
  /\ synced' = <<>>
  /\ UNCHANGED n_frames
  /\ UNCHANGED <<now, d_vars, s_vars, t_vars, g_vars, imu_vars, imu_lock, imu_buffer, pub_vars, q_vars, h_vars>>

CamNext ==
  \/ CamRead \/ CamReadFail \/ CamInfer \/ CamInferRaise \/ CamEncode \/ CamEncodeRaise
  \/ CamStamp \/ CamAcquire \/ CamCopy \/ CamFilter \/ CamAppendHist \/ CamSetLast
  \/ CamSleep

\* ------------------------------------------------ the period of camera_loop
\* camera_loop (lines 84-116) with the time its steps take, on a clock fine enough
\* for SLEEP_TIME: the blocking read, the work of lines 91-114, the sleep.

\* every thread but camera_loop, as far as the period clock is concerned
pipeline_vars ==
  <<now, imu_vars, imu_lock, imu_buffer, pub_vars, cam_vars, q_vars, h_vars, d_vars, s_vars,
    g_vars>>

\* no cycle before this one, or a failed read since
NoCycle == [start |-> 0 - 1, work |-> 0, late |-> 0]

\* the period clock advances, wherever camera_loop is
LoopTick ==
  /\ loop_clock < MaxLoopClock
  /\ loop_clock' = loop_clock + 1
  /\ UNCHANGED <<pc_loop, iter_start, sleep_start, sleep_for, h_last>>
  /\ UNCHANGED pipeline_vars

\* line 87: cap.read() returns a frame
LoopRead ==
  /\ pc_loop = "read"
  /\ pc_loop' = "work"
  /\ UNCHANGED <<loop_clock, iter_start, sleep_start, sleep_for, h_last>>
  /\ UNCHANGED pipeline_vars

\* lines 87-89: cap.read() returns no frame: continue, the next iteration begins
LoopReadFail ==
  /\ pc_loop = "read"
  /\ iter_start' = loop_clock
  /\ h_last' = NoCycle
  /\ UNCHANGED <<loop_clock, pc_loop, sleep_start, sleep_for>>
  /\ UNCHANGED pipeline_vars

\* lines 91-116: inference, encoding and synchronisation are done, and
\* time.sleep(SLEEP_TIME) is called
LoopWork ==
  /\ pc_loop = "work"
  /\ sleep_start' = loop_clock
  /\ sleep_for' = SLEEP_TIME
  /\ pc_loop' = "sleep"
  /\ UNCHANGED <<loop_clock, iter_start, h_last>>
  /\ UNCHANGED pipeline_vars

\* line 116: time.sleep returns, not before the time asked for has passed; the next
\* iteration begins (line 86)
LoopWake ==
  /\ pc_loop = "sleep"
  /\ loop_clock - sleep_start >= sleep_for
  /\ pc_loop' = "read"
  /\ iter_start' = loop_clock
  /\ h_last' = [start |-> iter_start, work |-> sleep_start - iter_start,
                late |-> loop_clock - sleep_start - sleep_for]
  /\ sleep_start' = 0
  /\ sleep_for' = 0
  /\ UNCHANGED loop_clock
  /\ UNCHANGED pipeline_vars

\* ------------------------------------------------------ depth_to_distance
\* depth_map.min(), depth_map.max()
ArrayMin(a) == CHOOSE x \in { a[i] : i \in 1..Len(a) } : \A i \in 1..Len(a) : x <= a[i]

ArrayMax(a) == CHOOSE x \in { a[i] : i \in 1..Len(a) } : \A i \in 1..Len(a) : x >= a[i]

\* A distance: the number min_dist + num / den metres, in exact arithmetic
Dist(base, n, d) == [base |-> base, num |-> n, den |-> d]

\* the normalisation without the 1e-8 in the denominator: a uniform frame divides by 0
DepthToDistanceNoEps(a, min_dist, max_dist) ==
  LET lo  == ArrayMin(a)
      den == ArrayMax(a) - lo
  IN [i \in 1..Len(a) |-> Dist(min_dist, (den - (a[i] - lo)) * (max_dist - min_dist), den)]

\* the normalisation turned round: the distance grows with the raw value
DepthToDistanceRising(a, min_dist, max_dist) ==
  LET lo  == ArrayMin(a)
      den == ArrayMax(a) - lo + EPS
  IN [i \in 1..Len(a) |-> Dist(min_dist, (a[i] - lo) * (max_dist - min_dist), den)]

\* lines 71-73.  depth_norm[i] = (a[i] - min) / (max - min + 1e-8), and the result is
\* min_dist + (1.0 - depth_norm[i]) * (max_dist - min_dist)
\*   = min_dist + (den - (a[i] - min)) * (max_dist - min_dist) / den, den = max - min + 1e-8
DepthToDistance(a, min_dist, max_dist) ==
  LET lo  == ArrayMin(a)
      den == ArrayMax(a) - lo + EPS
  IN [i \in 1..Len(a) |-> Dist(min_dist, (den - (a[i] - lo)) * (max_dist - min_dist), den)]

\* Raw depth values: 0.0, 1e-8, 2e-8, 1.0, 5.0
RawDepths == { 0, EPS, 2 * EPS, RAW_ONE, 5 * RAW_ONE }

\* The frames: every array of 1 to MaxPixels raw values
DepthMaps == UNION { [1..n -> RawDepths] : n \in 1..MaxPixels }

NoArray == <<>>

\* line 94: dist = depth_to_distance(depth_map), with the default min_dist and max_dist
DepthCall ==
  /\ pc_depth = "call"
  /\ distance' = DepthToDistance(depth_map, MIN_DIST, MAX_DIST)
  /\ pc_depth' = "returned"
  /\ UNCHANGED <<depth_map, depth_16>>
  /\ UNCHANGED <<now, s_vars, t_vars, g_vars, imu_vars, imu_lock, imu_buffer, pub_vars, cam_vars, q_vars, h_vars>>

\* floor(k * r / den) and the remainder, for 0 <= r < den, by doubling: no
\* intermediate value reaches 2 * den
RECURSIVE ScaleDiv(_, _, _)
ScaleDiv(r, k, den) ==
  IF k = 0 THEN [q |-> 0, r |-> 0]
  ELSE LET h   == ScaleDiv(r, k \div 2, den)
           q2  == 2 * h.q + (2 * h.r) \div den
           r2  == (2 * h.r) % den
           odd == k % 2 = 1
       IN [q |-> IF odd THEN q2 + (r2 + r) \div den ELSE q2,
           r |-> IF odd THEN (r2 + r) % den ELSE r2]

\* line 138, latest_depth_float * scale truncated toward zero (astype on a value that
\* is not negative): (base + num / den) * scale
Scaled(d, scale) ==
  scale * d.base + scale * (d.num \div d.den) + ScaleDiv(d.num % d.den, scale, d.den).q

\* line 138, astype(np.uint16): the integer is kept modulo 2^16
Uint16(x) == x % 65536

\* the conversion to a unit of 1e-5 m in place of millimetres
ToDepth16Fine(d) == Uint16(Scaled(d, 100000))

\* line 138: one entry of (latest_depth_float * 1000.0).astype(np.uint16)
ToDepth16(d) == Uint16(Scaled(d, 1000))

\* lines 136-138 of frame_depth_raw, on the array camera_loop has published as
\* latest_depth_float (line 95: a copy of dist)
DepthEncode ==
  /\ pc_depth = "returned"
  /\ distance # NoArray
  /\ depth_16' = [i \in 1..Len(distance) |-> ToDepth16(distance[i])]
  /\ pc_depth' = "encoded"
  /\ UNCHANGED <<depth_map, distance>>
  /\ UNCHANGED <<now, s_vars, t_vars, g_vars, imu_vars, imu_lock, imu_buffer, pub_vars, cam_vars, q_vars, h_vars>>

\* the caller takes the next frame, whether or not the last one was asked for
DepthNextFrame ==
  /\ pc_depth \in {"returned", "encoded"}
  /\ \E a \in DepthMaps : depth_map' = a
  /\ distance' = NoArray
  /\ depth_16' = NoArray
  /\ pc_depth' = "call"
  /\ UNCHANGED <<now, s_vars, t_vars, g_vars, imu_vars, imu_lock, imu_buffer, pub_vars, cam_vars, q_vars, h_vars>>

\* ------------------------------------------------------- src/soundloc.py
\* The positions a publisher reports as nearest contact
Positions == { "p1", "p2" }

NoNearest == "None"

\* _latest (lines 24-31, without frame and stamp, which no decision reads)
Latest(st, hit, nearest, received_at) ==
  [state |-> st, hit |-> hit, nearest |-> nearest, received_at |-> received_at]

\* What the source was last moved toward: nothing yet, a reported position (the
\* position set is the low-pass of line 57 toward it), or the fixed position of /test
NotMoved == "origin"

TestPosition == "test"

\* The pos or position entry of a contact: a list of n coordinates, which names the
\* position `at` when n is 3; n = 0 stands for a missing, null or empty entry
PosList(n, at) == [n |-> n, at |-> at]

PosLists ==
  { PosList(0, NoNearest), PosList(2, NoNearest) } \cup { PosList(3, q) : q \in Positions }

\* The contacts entry of a /collision_event body: empty, or a first contact (the only
\* one that is read)
ContactLists == { <<>> } \cup { <<[pos |-> l]>> : l \in PosLists }

\* A request: its route and the entries of its JSON body the handlers read (type is
\* "other" for any value but "contact" and "none", a missing one included)
Http(route, type, contacts, hit, nearest) ==
  [route |-> route, type |-> type, contacts |-> contacts, hit |-> hit, nearest |-> nearest]

NoHttp == Http("", "", <<>>, FALSE, NoNearest)

HttpRequests ==
  { Http("/collision_event", "contact", c, FALSE, NoNearest) : c \in ContactLists }
    \cup { Http("/collision_event", t, <<>>, FALSE, NoNearest) : t \in {"none", "other"} }
    \cup { Http("/collision", "", <<>>, hit, n) :
             hit \in BOOLEAN, n \in Positions \cup {NoNearest} }
    \cup { Http(r, "", <<>>, FALSE, NoNearest) : r \in {"/collision_state", "/test", "/silence"} }

\* What a handler does under _state_lock: a contact at a position, none, /silence,
\* /test, the read of /collision_state
Requests ==
  { [op |-> "contact", pos |-> q] : q \in Positions }
    \cup { [op |-> o, pos |-> NoNearest] : o \in {"none", "silence", "test", "state"} }

NoRequest == [op |-> "", pos |-> NoNearest]

\* the request is answered 400 without a call of _apply_state_contact or _apply_state_none
Reject == [op |-> "reject", pos |-> NoNearest]

\* a contact without a usable position is taken as no contact
CollisionEventLenient(h) ==
  IF h.type = "contact"
    THEN IF h.contacts = <<>>
           THEN [op |-> "none", pos |-> NoNearest]
           ELSE LET pos == h.contacts[1].pos
                IN IF pos.n = 0 \/ pos.n # 3
                     THEN [op |-> "none", pos |-> NoNearest]
                     ELSE [op |-> "contact", pos |-> pos.at]
    ELSE IF h.type = "none"
           THEN [op |-> "none", pos |-> NoNearest]
           ELSE Reject

\* lines 125-147: collision_event up to its call of _apply_state_contact or
\* _apply_state_none, or its 400
CollisionEvent(h) ==
  IF h.type = "contact"
    THEN IF h.contacts = <<>>
           THEN [op |-> "none", pos |-> NoNearest]
           ELSE LET pos == h.contacts[1].pos
                IN IF pos.n = 0 \/ pos.n # 3
                     THEN Reject
                     ELSE [op |-> "contact", pos |-> pos.at]
    ELSE IF h.type = "none"
           THEN [op |-> "none", pos |-> NoNearest]
           ELSE Reject

\* lines 153-165: collision_post
CollisionPost(h) ==
  IF h.hit /\ h.nearest # NoNearest
    THEN [op |-> "contact", pos |-> h.nearest]
    ELSE [op |-> "none", pos |-> NoNearest]

\* the handler of each route, up to the with block
Command(h) ==
  CASE h.route = "/collision_event" -> CollisionEvent(h)
    [] h.route = "/collision" -> CollisionPost(h)
    [] h.route = "/collision_state" -> [op |-> "state", pos |-> NoNearest]
    [] h.route = "/test" -> [op |-> "test", pos |-> NoNearest]
    [] h.route = "/silence" -> [op |-> "silence", pos |-> NoNearest]

\* A response: its status and, for /collision_state, state, hit and nearest (age,
\* frame and stamp are left out)
SndResponse(status, st, hit, nearest) ==
  [status |-> status, state |-> st, hit |-> hit, nearest |-> nearest]

NoSndResponse == SndResponse(0, "", FALSE, NoNearest)

\* the clock of the audio process advances
SndTick ==
  /\ snd_now < MaxSndTime
  /\ snd_now' = snd_now + 1
  /\ UNCHANGED <<latest, is_playing, src_playing, src_pos, state_lock, pc_wd, wd_now>>
  /\ UNCHANGED <<pc_req, http, req, snd_resp>>
  /\ UNCHANGED <<dm_vars, g_vars>>

\* lines 124, 152, 170, 183, 216: a request arrives
ReqStart ==
  /\ pc_req = "idle"
  /\ \E h \in HttpRequests : http' = h
  /\ snd_resp' = NoSndResponse
  /\ pc_req' = "route"
  /\ UNCHANGED <<snd_now, latest, is_playing, src_playing, src_pos, state_lock, pc_wd, wd_now>>
  /\ UNCHANGED req
  /\ UNCHANGED <<dm_vars, g_vars>>

\* the handler's code before its with block: the body is read and the handler goes
\* on to take _state_lock, or returns 400 (lines 137 and 147)
ReqRoute ==
  /\ pc_req = "route"
  /\ IF Command(http) = Reject
       THEN /\ snd_resp' = SndResponse(400, "", FALSE, NoNearest)
            /\ pc_req' = "idle"
            /\ UNCHANGED req
       ELSE /\ req' = Command(http)
            /\ pc_req' = "lock"
            /\ UNCHANGED snd_resp
  /\ http' = NoHttp
  /\ UNCHANGED <<snd_now, latest, is_playing, src_playing, src_pos, state_lock, pc_wd, wd_now>>
  /\ UNCHANGED <<dm_vars, g_vars>>

\* the with block entered without taking _state_lock
ReqEnterUnlocked ==
  /\ pc_req = "lock"
  /\ pc_req' = "apply"
  /\ UNCHANGED <<snd_now, latest, is_playing, src_playing, src_pos, state_lock, pc_wd, wd_now>>
  /\ UNCHANGED <<http, req, snd_resp>>
  /\ UNCHANGED <<dm_vars, g_vars>>

\* lines 90, 109, 171, 186, 218: with _state_lock (acquire)
ReqAcquire ==
  /\ pc_req = "lock"
  /\ state_lock = "free"
  /\ state_lock' = "req"
  /\ pc_req' = "apply"
  /\ UNCHANGED <<snd_now, latest, is_playing, src_playing, src_pos, pc_wd, wd_now>>
  /\ UNCHANGED <<http, req, snd_resp>>
  /\ UNCHANGED <<dm_vars, g_vars>>

\* lines 91-103: _apply_state_contact under the lock.  _set_source_position returns
\* without moving the source when the last move is less than MIN_UPDATE_PERIOD
\* (33 ms, below the clock's resolution) old.
ApplyStateContact(pos) ==
  /\ src_pos' \in {src_pos, pos}
  /\ src_playing' = IF latest.state # "contact" \/ ~is_playing THEN TRUE ELSE src_playing
  /\ is_playing' = TRUE
  /\ latest' = Latest("contact", TRUE, pos, snd_now)

\* _apply_state_none that leaves nearest as it is
ApplyStateNoneKeepNearest ==
  /\ src_playing' = IF is_playing THEN FALSE ELSE src_playing
  /\ is_playing' = FALSE
  /\ latest' = Latest("none", FALSE, latest.nearest, snd_now)
  /\ UNCHANGED src_pos

\* lines 110-120 and 219-229: _apply_state_none and silence under the lock
ApplyStateNone ==
  /\ src_playing' = IF is_playing THEN FALSE ELSE src_playing
  /\ is_playing' = FALSE
  /\ latest' = Latest("none", FALSE, NoNearest, snd_now)
  /\ UNCHANGED src_pos

\* lines 187-190: test under the lock
ApplyTest ==
  /\ src_pos' = TestPosition
  /\ src_playing' = TRUE
  /\ is_playing' = TRUE
  /\ UNCHANGED latest

\* lines 171-180: collision_state reads _latest under the lock
CollisionState == UNCHANGED <<latest, is_playing, src_playing, src_pos>>

\* the body of the with block of the request, the release and the response
ReqApply ==
  /\ pc_req = "apply"
  /\ CASE req.op = "contact" -> ApplyStateContact(req.pos)
       [] req.op \in {"none", "silence"} -> ApplyStateNone
       [] req.op = "test" -> ApplyTest
       [] req.op = "state" -> CollisionState
  /\ snd_resp' = IF req.op = "state"
                   THEN SndResponse(200, latest.state, latest.hit, latest.nearest)
                   ELSE SndResponse(200, "", FALSE, NoNearest)
  /\ state_lock' = IF state_lock = "req" THEN "free" ELSE state_lock
  /\ pc_req' = "idle"
  /\ req' = NoRequest
  /\ UNCHANGED <<snd_now, pc_wd, wd_now, http>>
  /\ UNCHANGED <<dm_vars, g_vars>>

\* lines 197-198: the sleep ends, now = time.time()
WdWake ==
  /\ pc_wd = "sleep"
  /\ wd_now' = snd_now
  /\ pc_wd' = "lock"
  /\ UNCHANGED <<snd_now, latest, is_playing, src_playing, src_pos, state_lock>>
  /\ UNCHANGED <<pc_req, http, req, snd_resp>>
  /\ UNCHANGED <<dm_vars, g_vars>>

\* line 199: with _state_lock (acquire)
WdAcquire ==
  /\ pc_wd = "lock"
  /\ state_lock = "free"
  /\ state_lock' = "wd"
  /\ pc_wd' = "check"
  /\ UNCHANGED <<snd_now, latest, is_playing, src_playing, src_pos, wd_now>>
  /\ UNCHANGED <<pc_req, http, req, snd_resp>>
  /\ UNCHANGED <<dm_vars, g_vars>>

\* line 201: a contact older than COLLISION_TTL
Expired(t, l) == l.state = "contact" /\ t - l.received_at > COLLISION_TTL * TicksPerSec

\* lines 200-212 without the pause of lines 203-205
WdCheckKeepPlaying ==
  /\ pc_wd = "check"
  /\ IF Expired(wd_now, latest)
       THEN latest' = Latest("none", FALSE, NoNearest, wd_now)
       ELSE UNCHANGED latest
  /\ state_lock' = "free"
  /\ pc_wd' = "sleep"
  /\ wd_now' = 0
  /\ UNCHANGED <<snd_now, is_playing, src_playing, src_pos>>
  /\ UNCHANGED <<pc_req, http, req, snd_resp>>
  /\ UNCHANGED <<dm_vars, g_vars>>

\* lines 200-212: the check and the clearing, and the release; back to the sleep
\* (the local now is dead then)
WdCheck ==
  /\ pc_wd = "check"
  /\ IF Expired(wd_now, latest)
       THEN /\ src_playing' = IF is_playing THEN FALSE ELSE src_playing
            /\ is_playing' = FALSE
            /\ latest' = Latest("none", FALSE, NoNearest, wd_now)
       ELSE UNCHANGED <<latest, is_playing, src_playing>>
  /\ state_lock' = "free"
  /\ pc_wd' = "sleep"
  /\ wd_now' = 0
  /\ UNCHANGED <<snd_now, src_pos>>
  /\ UNCHANGED <<pc_req, http, req, snd_resp>>
  /\ UNCHANGED <<dm_vars, g_vars>>

\* ------------------------------------------------------------ main thread
\* lines 122-181: the main thread, which has started camera_loop at line 119, binds
\* latest_depth_float to None at line 124 and then serves requests (line 181).
\* camera_loop may have executed line 95 before.
MainInit ==
  /\ pc_main = "init"
  /\ latest_depth_float' = None
  /\ pc_main' = "serving"
  /\ UNCHANGED <<pc_q, resp, raw_imu_list>>
  /\ UNCHANGED <<synced_imu, latest_rgb, latest_imu_buffer, last_imu_ts>>
  /\ UNCHANGED <<now, d_vars, s_vars, t_vars, g_vars, imu_vars, imu_lock, imu_buffer, cam_vars, h_vars>>

\* --------------------------------------------------------- query handlers
\* The request threads of app.run(threaded=True)
Handlers == {"h1"}

NoResp == [route |-> "", status |-> 0, body |-> <<>>]

Response(r, st, b) == [route |-> r, status |-> st, body |-> b]

\* lines 149-156 and 168-175: a sample as the dict the handlers render
SampleDict(s) ==
  [ts |-> s[1], ax |-> s[2], ay |-> s[3], az |-> s[4], gx |-> s[5], gy |-> s[6], gz |-> s[7]]

SampleDicts(list) == [i \in 1..Len(list) |-> SampleDict(list[i])]

\* line 138-139: the distance map as a 16-bit PNG
EncodePng(d) == [k |-> "png", f |-> d.f]

\* line 129: latest_rgb is not None
RgbPublished == latest_rgb # None

\* line 136: latest_depth_float is not None
DepthPublished == latest_depth_float # None

\* line 147: if synced_imu
BundlePublished == synced_imu # <<>>

QStep(h, to) ==
  /\ pc_q' = [pc_q EXCEPT ![h] = to]
  /\ UNCHANGED <<resp, pc_main, raw_imu_list>>

QReply(h, r) ==
  /\ pc_q' = [pc_q EXCEPT ![h] = "done"]
  /\ resp' = [resp EXCEPT ![h] = r]
  /\ UNCHANGED <<pc_main, raw_imu_list>>

\* lines 126, 133, 145, 165: the first step of each route's handler
Routes == {"rgb_check", "depth_check", "buf_check", "raw_lock"}

\* a request for route r arrives (the server runs) and the thread is free
QStartRoute(h, r) ==
  /\ pc_main = "serving"
  /\ pc_q[h] = "idle"
  /\ QStep(h, r)
  /\ UNCHANGED <<now, d_vars, s_vars, t_vars, g_vars, imu_vars, imu_lock, imu_buffer, pub_vars, cam_vars, h_vars>>

QStart(h) == \E r \in Routes : QStartRoute(h, r)

\* a request for /imu_raw arrives
QStartRaw(h) == QStartRoute(h, "raw_lock")

\* line 129-130
QRgbCheck(h) ==
  /\ pc_q[h] = "rgb_check"
  /\ IF RgbPublished
       THEN QStep(h, "rgb_read")
       ELSE QReply(h, Response("frame_rgb", 503, <<>>))
  /\ UNCHANGED <<now, d_vars, s_vars, t_vars, g_vars, imu_vars, imu_lock, imu_buffer, pub_vars, cam_vars, h_vars>>

\* line 131
QRgbRead(h) ==
  /\ pc_q[h] = "rgb_read"
  /\ QReply(h, Response("frame_rgb", 200, <<latest_rgb>>))
  /\ UNCHANGED <<now, d_vars, s_vars, t_vars, g_vars, imu_vars, imu_lock, imu_buffer, pub_vars, cam_vars, h_vars>>

\* lines 136-137
QDepthCheck(h) ==
  /\ pc_q[h] = "depth_check"
  /\ IF DepthPublished
       THEN QStep(h, "depth_read")
       ELSE QReply(h, Response("frame_depth_raw", 503, <<>>))
  /\ UNCHANGED <<now, d_vars, s_vars, t_vars, g_vars, imu_vars, imu_lock, imu_buffer, pub_vars, cam_vars, h_vars>>

\* lines 138-142: the PNG, or 500 when imencode reports failure
QDepthRead(h) ==
  /\ pc_q[h] = "depth_read"
  /\ \/ QReply(h, Response("frame_depth_raw", 200, <<EncodePng(latest_depth_float)>>))
     \/ QReply(h, Response("frame_depth_raw", 500, <<>>))
  /\ UNCHANGED <<now, d_vars, s_vars, t_vars, g_vars, imu_vars, imu_lock, imu_buffer, pub_vars, cam_vars, h_vars>>

\* lines 147 and 163
QBufCheck(h) ==
  /\ pc_q[h] = "buf_check"
  /\ IF BundlePublished
       THEN QStep(h, "buf_read")
       ELSE QReply(h, Response("imu_buffer", 200, <<>>))
  /\ UNCHANGED <<now, d_vars, s_vars, t_vars, g_vars, imu_vars, imu_lock, imu_buffer, pub_vars, cam_vars, h_vars>>

\* lines 148-161
QBufRead(h) ==
  /\ pc_q[h] = "buf_read"
  /\ LET last == synced_imu[Len(synced_imu)]
     IN QReply(h, Response("imu_buffer", 200, <<last[1], SampleDicts(last[2])>>))
  /\ UNCHANGED <<now, d_vars, s_vars, t_vars, g_vars, imu_vars, imu_lock, imu_buffer, pub_vars, cam_vars, h_vars>>

\* the iteration entered without taking imu_lock
QRawEnterUnlocked(h) ==
  /\ pc_q[h] = "raw_lock"
  /\ QStep(h, "raw_iter")
  /\ UNCHANGED <<now, d_vars, s_vars, t_vars, g_vars, imu_vars, imu_lock, imu_buffer, pub_vars, cam_vars, h_vars>>

\* line 167: with imu_lock (acquire)
QRawAcquire(h) ==
  /\ pc_q[h] = "raw_lock"
  /\ imu_lock = "free"
  /\ imu_lock' = h
  /\ QStep(h, "raw_iter")
  /\ UNCHANGED <<now, d_vars, s_vars, t_vars, g_vars, imu_vars, imu_buffer, pub_vars, cam_vars, h_vars>>

\* the iteration that leaves the with block without releasing imu_lock
QRawIterKeepLock(h) ==
  /\ pc_q[h] = "raw_iter"
  /\ LET k == Len(raw_imu_list[h])
     IN IF k < Len(imu_buffer)
          THEN /\ raw_imu_list' =
                    [raw_imu_list EXCEPT ![h] = Append(@, SampleDict(imu_buffer[k + 1]))]
               /\ UNCHANGED pc_q
          ELSE /\ pc_q' = [pc_q EXCEPT ![h] = "raw_reply"]
               /\ UNCHANGED raw_imu_list
  /\ UNCHANGED <<pc_main, resp, imu_lock>>
  /\ UNCHANGED <<now, d_vars, s_vars, t_vars, g_vars, imu_vars, imu_buffer, pub_vars, cam_vars, h_vars>>

\* lines 167-175: the comprehension takes the samples of imu_buffer one by one, in
\* the deque's order; when the deque is exhausted the with block ends (release)
QRawIter(h) ==
  /\ pc_q[h] = "raw_iter"
  /\ LET k == Len(raw_imu_list[h])
     IN IF k < Len(imu_buffer)
          THEN /\ raw_imu_list' =
                    [raw_imu_list EXCEPT ![h] = Append(@, SampleDict(imu_buffer[k + 1]))]
               /\ UNCHANGED <<pc_q, imu_lock>>
          ELSE /\ imu_lock' = IF imu_lock = h THEN "free" ELSE imu_lock
               /\ pc_q' = [pc_q EXCEPT ![h] = "raw_reply"]
               /\ UNCHANGED raw_imu_list
  /\ UNCHANGED <<pc_main, resp>>
  /\ UNCHANGED <<now, d_vars, s_vars, t_vars, g_vars, imu_vars, imu_buffer, pub_vars, cam_vars, h_vars>>

\* line 176: return jsonify({"imu": imu_list}), outside the with block
QRawReply(h) ==
  /\ pc_q[h] = "raw_reply"
  /\ pc_q' = [pc_q EXCEPT ![h] = "done"]
  /\ resp' = [resp EXCEPT ![h] = Response("imu_raw", 200, <<raw_imu_list[h]>>)]
  /\ raw_imu_list' = [raw_imu_list EXCEPT ![h] = <<>>]
  /\ UNCHANGED pc_main
  /\ UNCHANGED <<now, d_vars, s_vars, t_vars, g_vars, imu_vars, imu_lock, imu_buffer, pub_vars, cam_vars, h_vars>>

\* the response has been sent; the thread takes the next request
QReturn(h) ==
  /\ pc_q[h] = "done"
  /\ pc_q' = [pc_q EXCEPT ![h] = "idle"]
  /\ resp' = [resp EXCEPT ![h] = NoResp]
  /\ UNCHANGED <<pc_main, raw_imu_list>>
  /\ UNCHANGED <<now, d_vars, s_vars, t_vars, g_vars, imu_vars, imu_lock, imu_buffer, pub_vars, cam_vars, h_vars>>

QNext ==
  \E h \in Handlers :
    \/ QStart(h) \/ QRgbCheck(h) \/ QRgbRead(h) \/ QDepthCheck(h) \/ QDepthRead(h)
    \/ QBufCheck(h) \/ QBufRead(h) \/ QRawAcquire(h) \/ QRawIter(h) \/ QRawReply(h)
    \/ QReturn(h)

\* ----------------------------------------------------------- specification
\* The globals and the two producer threads when the module-level code has run up
\* to line 119: both threads have been started and have yet to take their first step.
\* latest_depth_float is not bound before line 124; no thread reads it before line 95
\* or line 124 has bound it, and it is represented by None.
InitThreads ==
  /\ now = 0
  /\ pc_imu = "start"
  /\ unix_start_time = 0
  /\ imu_start_us = <<>>
  /\ line = NoLine
  /\ ts_unix = 0
  /\ vals = <<>>
  /\ imu_lock = "free"
  /\ imu_buffer = <<>>
  /\ synced_imu = <<>>
  /\ latest_rgb = None
  /\ latest_depth_float = None
  /\ latest_imu_buffer = <<>>
  /\ last_imu_ts = 0
  /\ pc_cam = "read"
  /\ n_frames = 0
  /\ frame = 0
  /\ dist = None
  /\ timestamp = 0
  /\ imu_list = <<>>
  /\ synced = <<>>
  /\ pc_q = [h \in Handlers |-> "idle"]
  /\ resp = [h \in Handlers |-> NoResp]
  /\ raw_imu_list = [h \in Handlers |-> <<>>]
  /\ h_appended = <<>>
  /\ h_bundle_cycle = 0
  /\ h_dropped = "no"
  /\ h_depth_published = FALSE
  /\ h_read_failed = FALSE
  /\ loop_clock = 0
  /\ pc_loop = "read"
  /\ iter_start = 0
  /\ sleep_start = 0
  /\ sleep_for = 0
  /\ h_last = NoCycle

\* ------------------------------------------------------- src/scan-cam.py
\* VideoPreviewWidget: the button's command runs on the Tk thread, statement by
\* statement, while the capture_loop threads it has started run on their own.
CaptureThreads == 1..MaxCaptureThreads

Started == { t \in CaptureThreads : pc_capture[t] # "unborn" }

\* the other subsystems stand still
PreviewFrame == UNCHANGED <<dm_vars, s_vars, sc_vars>>

\* lines 324-329, then line 349 (stop_preview: self.running = False), lines 333-334
\* (start_preview on a source that is not available returns) or line 336
\* (self.running = True)
TogglePreview ==
  /\ pc_gui = "idle"
  /\ toggles < MaxToggles
  /\ toggles' = toggles + 1
  /\ IF running
       THEN running' = FALSE /\ pc_gui' = "release"
       ELSE IF ~available
         THEN UNCHANGED <<running, pc_gui>>
         ELSE /\ Cardinality(Started) < MaxCaptureThreads
              /\ running' = TRUE
              /\ pc_gui' = "open"
  /\ UNCHANGED <<available, cap, pc_capture>>
  /\ PreviewFrame

\* lines 352-353: if self.cap: self.cap.release()
StopRelease ==
  /\ pc_gui = "release"
  /\ cap' = IF cap = "None" THEN cap ELSE "closed"
  /\ pc_gui' = "clear"
  /\ UNCHANGED <<available, running, pc_capture, toggles>>
  /\ PreviewFrame

\* lines 354-359: self.cap = None (inside the if), the canvas is cleared
StopClear ==
  /\ pc_gui = "clear"
  /\ cap' = "None"
  /\ pc_gui' = "idle"
  /\ UNCHANGED <<available, running, pc_capture, toggles>>
  /\ PreviewFrame

\* lines 340-341: self.cap = cv2.VideoCapture(...), which opens the device or fails to
StartOpen ==
  /\ pc_gui = "open"
  /\ cap' \in {"open", "closed"}
  /\ pc_gui' = "spawn"
  /\ UNCHANGED <<available, running, pc_capture, toggles>>
  /\ PreviewFrame

\* lines 344-345: a new thread runs capture_loop
StartThread ==
  /\ pc_gui = "spawn"
  /\ \E t \in CaptureThreads :
       /\ pc_capture[t] = "unborn"
       /\ \A u \in CaptureThreads : u < t => pc_capture[u] # "unborn"
       /\ pc_capture' = [pc_capture EXCEPT ![t] = "test"]
  /\ pc_gui' = "idle"
  /\ UNCHANGED <<available, running, cap, toggles>>
  /\ PreviewFrame

\* a capture thread moves on and touches nothing
CaptureGoto(t, to) ==
  /\ pc_capture' = [pc_capture EXCEPT ![t] = to]
  /\ UNCHANGED <<available, running, cap, pc_gui, toggles>>
  /\ PreviewFrame

\* line 367, first operand: self.running
CaptureTestRunning(t) ==
  /\ pc_capture[t] = "test"
  /\ CaptureGoto(t, IF running THEN "test_cap" ELSE "done")

\* line 367, second operand: self.cap
CaptureTestCap(t) ==
  /\ pc_capture[t] = "test_cap"
  /\ CaptureGoto(t, IF cap # "None" THEN "test_open" ELSE "done")

\* line 367, third operand: self.cap.isOpened(), on self.cap as it is now (None has
\* no isOpened: the AttributeError ends the thread)
CaptureTestOpened(t) ==
  /\ pc_capture[t] = "test_open"
  /\ CaptureGoto(t, CASE cap = "None" -> "crashed"
                      [] cap = "closed" -> "done"
                      [] OTHER -> "read")

\* lines 368-371: ret, frame = self.cap.read(); without a frame the thread sleeps
\* 0.1 s and goes back to line 367
CaptureRead(t) ==
  /\ pc_capture[t] = "read"
  /\ \/ cap = "None" /\ CaptureGoto(t, "crashed")
     \/ cap = "open" /\ CaptureGoto(t, "show")
     \/ cap # "None" /\ CaptureGoto(t, "sleep")

\* lines 373-404: the frame is drawn on the canvas and time.sleep(0.033) is called
CaptureShow(t) ==
  /\ pc_capture[t] = "show"
  /\ CaptureGoto(t, "sleep")

\* line 370 or 404: time.sleep returns, back to line 367
CaptureWake(t) ==
  /\ pc_capture[t] = "sleep"
  /\ CaptureGoto(t, "test")

CaptureNext ==
  \E t \in CaptureThreads :
    \/ CaptureTestRunning(t) \/ CaptureTestCap(t) \/ CaptureTestOpened(t)
    \/ CaptureRead(t) \/ CaptureShow(t) \/ CaptureWake(t)

\* lines 285-292: the widget as constructed
WidgetInit ==
  /\ running = FALSE
  /\ cap = "None"
  /\ pc_gui = "idle"
  /\ pc_capture = [t \in CaptureThreads |-> "unborn"]
  /\ toggles = 0

\* a widget of an available source (the only ones create_preview_widgets builds,
\* lines 576 and 591), untouched
PreviewIdle == WidgetInit /\ available = TRUE

\* VideoScanner and VideoScannerGUI: the handlers start_scan, stop_scan and
\* create_preview_widgets run on the Tk thread, one at a time; each start_scan starts
\* a thread that runs scan_sources statement by statement.
ScanThreads == 1..MaxScans

ListIds == 0..MaxScans

\* an entry of scanner.sources: a VideoSource
VideoSource(index, is_available) == [index |-> index, is_available |-> is_available]

\* a scan thread that is inside scan_sources (lines 218-276)
InScanSources(t) ==
  scan[t].pc \in {"reset", "flag", "check", "probe", "append", "finish", "return"}

ScanFrame == UNCHANGED <<dm_vars, s_vars, pv_vars>>

ScanGoto(t, to) == scan' = [scan EXCEPT ![t].pc = to]

\* lines 576: the indices of the available sources of a list, in order
RECURSIVE AvailableIndices(_)
AvailableIndices(l) ==
  IF l = <<>> THEN <<>>
  ELSE (IF Head(l).is_available THEN <<Head(l).index>> ELSE <<>>) \o AvailableIndices(Tail(l))

\* lines 548-564, the command of the scan button while it is enabled: the preview
\* widgets are stopped and dropped, the buttons switched, a scan thread started
StartScan ==
  /\ scan_btn = "normal"
  /\ \E t \in ScanThreads :
       /\ scan[t].pc = "unborn"
       /\ \A u \in ScanThreads : u < t => scan[u].pc # "unborn"
       /\ ScanGoto(t, "reset")
  /\ preview_widgets' = <<>>
  /\ scan_btn' = "disabled"
  /\ stop_btn' = "normal"
  /\ UNCHANGED <<scanning, lists, sources, h_early, h_stop_for>>
  /\ ScanFrame

\* lines 605-611, the command of the stop button while it is enabled (lines 278-280:
\* self.scanning = False)
StopScan ==
  /\ stop_btn = "normal"
  /\ scanning' = FALSE
  /\ scan_btn' = "normal"
  /\ stop_btn' = "disabled"
  /\ h_stop_for' = [t \in ScanThreads |-> h_stop_for[t] \/ InScanSources(t)]
  /\ UNCHANGED <<lists, sources, preview_widgets, scan, h_early>>
  /\ ScanFrame

\* line 218: self.sources = [], a new list
ScanReset(t) ==
  /\ scan[t].pc = "reset"
  /\ lists' = [lists EXCEPT ![t] = <<>>]
  /\ sources' = t
  /\ ScanGoto(t, "flag")
  /\ UNCHANGED <<scanning, scan_btn, stop_btn, preview_widgets, h_early, h_stop_for>>
  /\ ScanFrame

\* lines 219-224: self.scanning = True, the loop begins at index 0
ScanSetFlag(t) ==
  /\ scan[t].pc = "flag"
  /\ scanning' = TRUE
  /\ scan' = [scan EXCEPT ![t].pc = "check", ![t].index = 0]
  /\ UNCHANGED <<lists, sources, scan_btn, stop_btn, preview_widgets, h_early, h_stop_for>>
  /\ ScanFrame

\* lines 224-226: the range is exhausted, or self.scanning is False and the loop is
\* left, or the index is tested
ScanCheck(t) ==
  /\ scan[t].pc = "check"
  /\ IF scan[t].index = MaxIndex
       THEN ScanGoto(t, "finish") /\ UNCHANGED h_early
       ELSE IF ~scanning
         THEN ScanGoto(t, "finish") /\ h_early' = [h_early EXCEPT ![t] = TRUE]
         ELSE ScanGoto(t, "probe") /\ UNCHANGED h_early
  /\ UNCHANGED <<scanning, lists, sources, scan_btn, stop_btn, preview_widgets, h_stop_for>>
  /\ ScanFrame

\* lines 228-268: the index is tested, a backend is found or not
ScanProbe(t) ==
  /\ scan[t].pc = "probe"
  /\ \E a \in BOOLEAN : scan' = [scan EXCEPT ![t].pc = "append", ![t].is_available = a]
  /\ UNCHANGED <<scanning, lists, sources, scan_btn, stop_btn, preview_widgets, h_early,
                 h_stop_for>>
  /\ ScanFrame

\* lines 270-273: self.sources.append(source), on the list self.sources is now
ScanAppend(t) ==
  /\ scan[t].pc = "append"
  /\ lists' = [lists EXCEPT
                 ![sources] = Append(@, VideoSource(scan[t].index, scan[t].is_available))]
  /\ scan' = [scan EXCEPT ![t].pc = "check", ![t].index = @ + 1]
  /\ UNCHANGED <<scanning, sources, scan_btn, stop_btn, preview_widgets, h_early, h_stop_for>>
  /\ ScanFrame

\* line 275: self.scanning = False
ScanFinish(t) ==
  /\ scan[t].pc = "finish"
  /\ scanning' = FALSE
  /\ ScanGoto(t, "return")
  /\ UNCHANGED <<lists, sources, scan_btn, stop_btn, preview_widgets, h_early, h_stop_for>>
  /\ ScanFrame

\* lines 276 and 568-571: return self.sources; create_preview_widgets is posted to
\* the Tk thread with the list returned
ScanReturn(t) ==
  /\ scan[t].pc = "return"
  /\ scan' = [scan EXCEPT ![t].pc = "returned", ![t].ret = sources]
  /\ UNCHANGED <<scanning, lists, sources, scan_btn, stop_btn, preview_widgets, h_early,
                 h_stop_for>>
  /\ ScanFrame

\* lines 573-603, on the Tk thread: a widget per available source of the list, the
\* buttons switched back
CreatePreviewWidgets(t) ==
  /\ scan[t].pc = "returned"
  /\ preview_widgets' = preview_widgets \o AvailableIndices(lists[scan[t].ret])
  /\ scan_btn' = "normal"
  /\ stop_btn' = "disabled"
  /\ ScanGoto(t, "done")
  /\ UNCHANGED <<scanning, lists, sources, h_early, h_stop_for>>
  /\ ScanFrame

ScanThreadNext ==
  \E t \in ScanThreads :
    \/ ScanReset(t) \/ ScanSetFlag(t) \/ ScanCheck(t) \/ ScanProbe(t) \/ ScanAppend(t)
    \/ ScanFinish(t) \/ ScanReturn(t) \/ CreatePreviewWidgets(t)

\* lines 111-113 and 464-470, and setup_ui (lines 485-491): nothing scanned, the scan
\* button enabled, the stop button disabled
ScannerInit ==
  /\ scanning = FALSE
  /\ lists = [l \in ListIds |-> <<>>]
  /\ sources = 0
  /\ scan_btn = "normal"
  /\ stop_btn = "disabled"
  /\ preview_widgets = <<>>
  /\ scan = [t \in ScanThreads |->
               [pc |-> "unborn", index |-> 0, is_available |-> FALSE, ret |-> 0]]
  /\ h_early = [t \in ScanThreads |-> FALSE]
  /\ h_stop_for = [t \in ScanThreads |-> FALSE]

\* depth_to_distance is not being evaluated on its own
NoDepthCall ==
  /\ pc_depth = "returned"
  /\ depth_map = NoArray
  /\ distance = NoArray
  /\ depth_16 = NoArray

\* src/soundloc.py when main() has started the watchdog (line 243): _latest as of
\* lines 24-31, the source paused (line 71)
SoundInit ==
  /\ snd_now = 0
  /\ latest = Latest("none", FALSE, NoNearest, 0)
  /\ is_playing = FALSE
  /\ src_playing = FALSE
  /\ src_pos = NotMoved
  /\ state_lock = "free"
  /\ pc_wd = "sleep"
  /\ wd_now = 0
  /\ pc_req = "idle"
  /\ http = NoHttp
  /\ req = NoRequest
  /\ snd_resp = NoSndResponse

\* The state after line 119: the main thread has yet to execute line 124
Init == InitThreads /\ pc_main = "init" /\ NoDepthCall /\ SoundInit /\ PreviewIdle /\ ScannerInit

\* The state when the main thread has executed line 124 and serves (line 181)
\* before either producer thread has taken its first step
InitServing == InitThreads /\ pc_main = "serving" /\ NoDepthCall /\ SoundInit /\ PreviewIdle /\ ScannerInit

\* depth_to_distance alone, called on any frame
InitDepth ==
  /\ InitThreads /\ pc_main = "init"
  /\ pc_depth = "call"
  /\ depth_map \in DepthMaps
  /\ distance = NoArray
  /\ depth_16 = NoArray
  /\ SoundInit
  /\ PreviewIdle /\ ScannerInit

NextDepth == DepthCall \/ DepthEncode \/ DepthNextFrame

SpecDepth == InitDepth /\ [][NextDepth]_vars

\* The pipeline: the clock and the two producer threads, whatever the main thread
\* and the server do (the producers read nothing the main thread writes)
Next == Tick \/ ImuNext \/ CamNext

Spec == Init /\ [][Next]_vars

\* The producers, the main thread and the query handlers, at one instant of the clock
NextQ == ImuNext \/ CamNext \/ MainInit \/ QNext

SpecQ == Init /\ [][NextQ]_vars

\* The producers and the one handler that takes imu_lock, imu_raw (the other
\* handlers read published fields only and share nothing with imu_reader)
NextL ==
  \/ ImuNext
  \/ CamNext
  \/ \E h \in Handlers :
       QStartRaw(h) \/ QRawAcquire(h) \/ QRawIter(h) \/ QRawReply(h) \/ QReturn(h)

\* Fair scheduling.  imu_reader's own steps are taken (readline returns after its
\* 10 ms timeout at the latest), a thread waiting for imu_lock gets it when it is
\* released again and again, and a thread holding imu_lock finishes its copy.
\* Nothing is assumed of the camera read, of inference and encoding, or of the
\* arrival of requests.  The server runs from the start: the order of line 124 and
\* the producers' first steps changes latest_depth_float only, which no user of
\* imu_lock reads.
FairSpec ==
  /\ InitServing /\ [][NextL]_vars
  /\ WF_vars(ImuParse)
  /\ SF_vars(ImuAcquire)
  /\ WF_vars(ImuAppend)
  /\ WF_vars(CamCopy)
  /\ \A h \in Handlers : WF_vars(QRawIter(h))

\* The producers and all query handlers of the running server
NextS == ImuNext \/ CamNext \/ QNext

\* The steps of a request thread that wait for nothing
QRun(h) ==
  \/ QRgbCheck(h) \/ QRgbRead(h) \/ QDepthCheck(h) \/ QDepthRead(h)
  \/ QBufCheck(h) \/ QBufRead(h) \/ QRawIter(h) \/ QRawReply(h)

\* Fair scheduling of the request threads: a request thread that can run does run,
\* one that waits for imu_lock gets it when it is released again and again, and a
\* producer holding imu_lock finishes its append or copy.  Nothing is assumed of
\* the producers outside their with blocks: they may stay in readline, cap.read or
\* inference for ever.
FairSpecQ ==
  /\ InitServing /\ [][NextS]_vars
  /\ WF_vars(ImuAppend)
  /\ WF_vars(CamCopy)
  /\ \A h \in Handlers : WF_vars(QRun(h)) /\ SF_vars(QRawAcquire(h))

\* camera_loop against the period clock
NextPeriod == LoopTick \/ LoopRead \/ LoopReadFail \/ LoopWork \/ LoopWake

SpecPeriod == Init /\ [][NextPeriod]_vars

\* src/soundloc.py: the clock, the request thread and the watchdog
NextSound ==
  \/ SndTick \/ ReqStart \/ ReqRoute \/ ReqAcquire \/ ReqApply
  \/ WdWake \/ WdAcquire \/ WdCheck

\* Fair scheduling of the audio process: the watchdog's sleep ends and its steps are
\* taken, it gets _state_lock when the lock is released again and again, and a request
\* thread holding the lock finishes its with block.  Nothing is assumed of the
\* arrival of requests or of the clock.
SpecSound ==
  /\ Init /\ [][NextSound]_vars
  /\ WF_vars(WdWake) /\ SF_vars(WdAcquire) /\ WF_vars(WdCheck)
  /\ WF_vars(ReqApply)

\* src/scan-cam.py, one VideoPreviewWidget of any source: the clicks on its button
\* and its capture threads
InitPreview ==
  /\ InitThreads /\ pc_main = "init" /\ NoDepthCall /\ SoundInit
  /\ WidgetInit
  /\ available \in BOOLEAN
  /\ ScannerInit

NextPreview ==
  \/ TogglePreview \/ StopRelease \/ StopClear \/ StartOpen \/ StartThread
  \/ CaptureNext

SpecPreview == InitPreview /\ [][NextPreview]_vars

\* src/scan-cam.py, the scanner: the two buttons of the GUI and the scan threads
NextScan == StartScan \/ StopScan \/ ScanThreadNext

SpecScan == Init /\ [][NextScan]_vars

\* ================================================================== claims
LastN(s, n) == SubSeq(s, Len(s) - n + 1, Len(s))

\* C1 (atomic publish): in every reachable state the encoded frame, the distance
\* map and the latest bundle a reader can see come from the same acquisition cycle
\* (cycle 0: nothing published yet).
C1_AtomicPublish ==
  /\ latest_rgb.f = latest_depth_float.f
  /\ h_bundle_cycle = latest_rgb.f

\* C2 (window invariant): every sample s of every bundle of synced_imu satisfies
\* 0 < frame_timestamp - s.timestamp < 1.0 s.
C2_WindowInvariant ==
  \A i \in 1..Len(synced_imu) :
    \A j \in 1..Len(synced_imu[i][2]) :
      LET T  == synced_imu[i][1]
          ts == synced_imu[i][2][j][1]
      IN 0 < T - ts /\ T - ts < WINDOW

\* C2 witness: a bundle has just been appended that holds a sample, from a
\* snapshot that also held a sample outside the window.
C2_Witness ==
  /\ pc_cam = "last"
  /\ synced_imu # <<>>
  /\ Len(synced_imu[Len(synced_imu)][2]) >= 1
  /\ Len(synced_imu[Len(synced_imu)][2]) < Len(imu_list)

\* The positions of snapshot `list` whose sample lies in the window of frame time T
WindowIdx(list, T) ==
  { i \in 1..Len(list) : 0 < T - list[i][1] /\ T - list[i][1] < WINDOW }

\* The k-th smallest element of the set of positions I
KthIdx(I, k) == CHOOSE i \in I : Cardinality({ j \in I : j <= i }) = k

C4_RingBuffer ==
  /\ Len(imu_buffer) <= C_imu
  /\ imu_buffer = LastN(h_appended, Min(Len(h_appended), C_imu))
  /\ DequeAppend(DequeAppend(DequeAppend(DequeAppend(<<>>, 1, 3), 2, 3), 3, 3), 4, 3)
       = <<2, 3, 4>>

\* C4 witness: more samples have been appended than the buffer holds.
C4_Witness ==
  /\ Len(h_appended) > C_imu
  /\ Len(imu_buffer) = C_imu

\* C5 (ingestion is never stalled): under fair scheduling every well-formed record
\* imu_reader has read is eventually appended to imu_buffer, wherever camera_loop
\* is (blocked in the camera read, in inference, or dead) and whatever the handlers do.
C5_IngestionNotStalled ==
  (pc_imu = "parse" /\ Len(line) = 7 /\ \A i \in 1..7 : line[i].num)
    ~> (pc_imu = "read" /\ imu_buffer # <<>>
        /\ imu_buffer[Len(imu_buffer)] = <<ts_unix>> \o vals)

\* C5 witness: a sample has been appended while camera_loop had failed and a
\* handler was at work.
C5_Witness ==
  /\ pc_cam = "dead"
  /\ pc_imu = "read"
  /\ imu_buffer # <<>>
  /\ \E h \in Handlers : pc_q[h] \notin {"idle", "done"}

\* The record in `line` is malformed: not 7 fields, or a field that is no number
Malformed(parts) == Len(parts) # 7 \/ \E i \in 1..Len(parts) : ~parts[i].num

\* ts (in ticks) is the tick nearest to start + (raw - t0) / 1_000_000 seconds
NearestTick(ts, start, raw, t0) ==
  LET err == (ts - start) * US_PER_SEC - (raw - t0) * TicksPerSec
  IN 2 * err <= US_PER_SEC /\ 2 * err > 0 - US_PER_SEC

\* C6 (ingestion resilience): a malformed record does not end imu_reader and leaves
\* imu_buffer (and the clock anchor) unchanged; every record that is appended, the
\* one after a malformed record included, is appended with its translated timestamp
\* and its six channel values.
C6_Resilience ==
  /\ [][(pc_imu = "parse" /\ Malformed(line)) =>
          /\ imu_buffer' = imu_buffer
          /\ imu_start_us' = imu_start_us
          /\ pc_imu' \in {"parse", "read"}]_vars
  /\ [][(pc_imu = "append" /\ pc_imu' = "read") =>
          LET s == imu_buffer'[Len(imu_buffer')]
          IN /\ Len(s) = 7
             /\ NearestTick(s[1], unix_start_time, line[1].v, imu_start_us[1])
             /\ \A i \in 2..7 : s[i] = line[i].v]_vars

\* C6 witness: a record has been appended after a malformed record was dropped, and
\* the buffer held a sample before that.
C6_Witness ==
  /\ h_dropped = "recovered"
  /\ pc_imu = "read"
  /\ Len(imu_buffer) >= 2

\* C7 (frame loop survives per-iteration failures): an exception of inference or
\* encoding does not terminate camera_loop.
C7_LoopSurvives == pc_cam # "dead"

\* C8 (no partial publish on failure): when an iteration has failed in inference or
\* encoding, no published field carries that iteration's frame.
C8_NoPartialPublish ==
  pc_cam = "dead" =>
    /\ latest_depth_float.f # frame
    /\ latest_rgb.f # frame
    /\ h_bundle_cycle # frame

\* C9 (clock-domain translation): the first parsed record's sample gets the
\* wall-clock time at which it was parsed (wall_t0 is read when device_t0 is).
C9_AnchorAtFirstRecord ==
  [][(pc_imu = "parse" /\ imu_start_us = <<>> /\ imu_start_us' # <<>>)
        => ts_unix' = now]_vars

\* C10 (LatestState absent until the first cycle completes): before the first bundle
\* is appended none of the three queries finds anything published, and no state has
\* one of them published while another is not.
C10_AbsentUntilFirstCycle ==
  /\ h_bundle_cycle = 0 => (~RgbPublished /\ ~DepthPublished /\ ~BundlePublished)
  /\ RgbPublished <=> DepthPublished
  /\ DepthPublished <=> BundlePublished

\* C11 (availability of query results): a current-frame or current-distance-map
\* query is answered 503 exactly when no frame or distance map has been published,
\* and a latest-bundle query is answered with the empty bundle exactly when no
\* bundle has been appended; what has been published once is never reported
\* unavailable again.
C11_Availability ==
  [][\A h \in Handlers :
       (pc_q[h] # "done" /\ pc_q'[h] = "done") =>
         LET r == resp'[h]
         IN /\ r.route = "frame_rgb" => (r.status = 503 <=> latest_rgb = None)
            /\ r.route = "frame_depth_raw" => (r.status = 503 <=> ~h_depth_published)
            /\ r.route = "imu_buffer" => (r.body = <<>> <=> h_bundle_cycle = 0)]_vars


\* C12 (the raw inertial buffer query is a consistent full snapshot): the list imu_raw
\* returns equals the whole contents of imu_buffer at the instant the iteration
\* ends, which lies between the query's start and its return: every sample of the
\* buffer, in arrival order, none missing, duplicated or filtered.
C12_RawSnapshot ==
  /\ [][\A h \in Handlers :
          (pc_q[h] = "raw_iter" /\ pc_q'[h] = "raw_reply") =>
            /\ raw_imu_list'[h] = SampleDicts(imu_buffer)
            /\ imu_buffer = LastN(h_appended, Min(Len(h_appended), C_imu))]_vars
  /\ [][\A h \in Handlers :
          (pc_q[h] = "raw_reply" /\ pc_q'[h] # "raw_reply") =>
            /\ pc_q'[h] = "done"
            /\ resp'[h] = Response("imu_raw", 200, <<raw_imu_list[h]>>)]_vars
  /\ [][\A h \in Handlers :
          pc_q[h] = "raw_reply" => raw_imu_list'[h] \in {raw_imu_list[h], <<>>}]_vars

\* C12 witness: imu_raw has returned a full buffer while imu_reader was waiting for
\* imu_lock with the next sample.
C12_Witness ==
  \E h \in Handlers :
    /\ pc_q[h] = "done"
    /\ resp[h].route = "imu_raw"
    /\ Len(resp[h].body[1]) = C_imu
    /\ pc_imu = "lock"


\* C13 (queries return without waiting on producers): under fair scheduling of the
\* request threads every started query handler returns, wherever the producers are
\* and even if they never take another step outside their with blocks.
C13_QueriesReturn ==
  \A h \in Handlers : (pc_q[h] \notin {"idle", "done"}) ~> (pc_q[h] = "done")

\* C13 witness: imu_raw has returned while imu_reader was in readline with nothing
\* appended but its first sample and camera_loop was in inference.
C13_Witness ==
  \E h \in Handlers :
    /\ pc_q[h] = "done"
    /\ resp[h].route = "imu_raw"
    /\ Len(resp[h].body[1]) = 1
    /\ pc_imu = "read"
    /\ pc_cam = "infer"


DistEq(d, x) == d.num = (x - d.base) * d.den

\* d1 <= d2, for two distances of one frame (same base and denominator)
DistLeq(d1, d2) == d1.num <= d2.num

\* C15 (degenerate normalization): for a raw depth map whose entries are all equal,
\* depth_to_distance returns a map whose entries all equal MAX_DIST, the divisor
\* being 1e-8 and not zero; all entries 5.0 give all entries 5.0.
C15_Degenerate ==
  (pc_depth = "returned" /\ depth_map # NoArray
     /\ \A i \in 1..Len(depth_map) : depth_map[i] = depth_map[1]) =>
    /\ Len(distance) = Len(depth_map)
    /\ \A i \in 1..Len(distance) : distance[i].den > 0 /\ DistEq(distance[i], MAX_DIST)

\* C15 witness: depth_to_distance has returned for a frame of at least two entries,
\* all 5.0.
C15_Witness ==
  /\ pc_depth = "returned"
  /\ Len(depth_map) >= 2
  /\ \A i \in 1..Len(depth_map) : depth_map[i] = 5 * RAW_ONE


\* Distance is monotonically non-increasing in the raw value, over the frame
Monotone(raw, d) ==
  \A i, j \in 1..Len(raw) : raw[i] <= raw[j] => DistLeq(d[j], d[i])

C17_StampAtAcquisition ==
  [][/\ (pc_cam = "read" /\ pc_cam' = "infer") => timestamp' = now
     /\ pc_cam \in {"infer", "encode", "stamp"} => timestamp' = timestamp]_vars


\* C18 (collision watchdog, src/soundloc.py): contacts never stick.  A contact that
\* has had no update for more than COLLISION_TTL seconds is eventually cleared (or an
\* update arrives); when the watchdog clears it, state is "none", hit is False, nearest
\* is None and playback is paused; and every contact update restarts the TTL.
C18_Watchdog ==
  /\ Expired(snd_now, latest) ~> ~Expired(snd_now, latest)
  /\ [][(pc_wd = "check" /\ latest.state = "contact" /\ latest'.state # "contact") =>
          /\ wd_now - latest.received_at > COLLISION_TTL * TicksPerSec
          /\ latest'.state = "none" /\ latest'.hit = FALSE /\ latest'.nearest = NoNearest
          /\ ~is_playing' /\ ~src_playing']_vars
  /\ [][(pc_wd = "check" /\ latest.state = "contact"
           /\ wd_now - latest.received_at <= COLLISION_TTL * TicksPerSec) =>
          latest' = latest /\ src_playing' = src_playing]_vars
  /\ [][(pc_req = "apply" /\ pc_req' = "idle" /\ req.op = "contact") =>
          /\ latest' = Latest("contact", TRUE, req.pos, snd_now)
          /\ ~Expired(snd_now', latest')
          /\ src_playing']_vars

\* C18 witness: the watchdog has cleared a contact that was updated a second time
\* and then left alone for more than COLLISION_TTL.
C18_Witness ==
  /\ latest.state = "none"
  /\ pc_wd = "sleep"
  /\ latest.received_at > COLLISION_TTL * TicksPerSec + 1
  /\ ~src_playing
  /\ pc_req = "idle"


\* The threads that are inside an access to imu_buffer: the append of line 52, the
\* copy of line 106, the iteration of lines 168-175
InAccess ==
  (IF pc_imu = "append" THEN {"imu"} ELSE {})
    \cup (IF pc_cam = "copy" THEN {"cam"} ELSE {})
    \cup { h \in Handlers : pc_q[h] = "raw_iter" }

\* C19 (ring-buffer mutual exclusion): a thread that is inside an access to imu_buffer
\* holds imu_lock, so no two threads are inside an access at the same time.
C19_MutualExclusion ==
  /\ \A t \in InAccess : imu_lock = t
  /\ Cardinality(InAccess) <= 1

\* C19 witness: imu_raw is in the middle of its iteration while imu_reader and
\* camera_loop both wait for imu_lock.
C19_Witness ==
  \E h \in Handlers :
    /\ pc_q[h] = "raw_iter"
    /\ Len(raw_imu_list[h]) = 1
    /\ Len(imu_buffer) = C_imu
    /\ pc_imu = "lock"
    /\ pc_cam = "lock"

\* C20 (minimal critical sections): imu_lock is held by no thread that is in the serial
\* read, record parsing, the camera read, inference, encoding, window filtering, the
\* sleep or response rendering: imu_reader holds it only in the append, camera_loop
\* only in the copy, imu_raw only in the iteration that copies the buffer.
C20_MinimalSections ==
  /\ pc_imu \in {"start", "read", "parse", "lock"} => imu_lock # "imu"
  /\ pc_cam \in {"read", "infer", "encode", "stamp", "lock", "filter", "hist", "last",
                 "sleep", "dead"} => imu_lock # "cam"
  /\ \A h \in Handlers :
       pc_q[h] \in {"idle", "rgb_check", "rgb_read", "depth_check", "depth_read",
                    "buf_check", "buf_read", "raw_lock", "raw_reply", "done"}
         => imu_lock # h
  /\ imu_lock \in {"free", "imu", "cam"} \cup Handlers

\* C20 witness: the lock is free while imu_reader parses its third record,
\* camera_loop filters the snapshot it has copied and imu_raw renders its response.
C20_Witness ==
  \E h \in Handlers :
    /\ imu_lock = "free"
    /\ pc_imu = "parse"
    /\ Len(imu_buffer) = C_imu
    /\ pc_cam = "filter"
    /\ imu_list # <<>>
    /\ pc_q[h] = "raw_reply"
    /\ raw_imu_list[h] # <<>>


\* C21 (the device-clock anchor is set once by the first successfully parsed record):
\* imu_start_us is None until a record of 7 numeric fields has been parsed; the step
\* that parses the first such record sets it to that record's raw timestamp; once set
\* it never changes; a record that fails to parse and a read exception leave it as
\* it is.
C21_AnchorSetOnce ==
  /\ [](imu_start_us = <<>> <=>
          (h_appended = <<>> /\ pc_imu \in {"start", "read", "parse"}))
  /\ [][imu_start_us # <<>> => imu_start_us' = imu_start_us]_vars
  /\ [][(imu_start_us = <<>> /\ imu_start_us' # <<>>) =>
          /\ pc_imu = "parse"
          /\ Len(line) = 7 /\ \A i \in 1..7 : line[i].num
          /\ imu_start_us' = <<line[1].v>>]_vars
  /\ [][(pc_imu = "parse" /\ pc_imu' # "parse"
           /\ Len(line) = 7 /\ (\A i \in 1..7 : line[i].num)) =>
          imu_start_us' # <<>>]_vars
  /\ [][(pc_imu = "parse" /\ Malformed(line)) => imu_start_us' = imu_start_us]_vars
  /\ [][pc_imu = "read" => imu_start_us' = imu_start_us]_vars

\* C21 witness: the first parsed record, which followed a malformed one, carried a
\* raw timestamp other than 0; a second record with an earlier raw timestamp has been
\* appended since and the anchor is still the first one's.
C21_Witness ==
  /\ imu_start_us = <<US_PER_SEC \div TicksPerSec>>
  /\ Len(h_appended) = 2
  /\ h_appended[2][1] < h_appended[1][1]
  /\ pc_imu = "read"


\* C22 (a camera read failure skips the iteration): the step in which cap.read()
\* returns no frame performs no inference, changes none of latest_rgb,
\* latest_depth_float, latest_imu_buffer, synced_imu and last_imu_ts, does not go to
\* the sleep and leaves camera_loop at the next read; nothing else camera_loop does
\* is done between a failed read and the next read.
C22_ReadFailureSkips ==
  /\ [][(pc_cam = "read" /\ n_frames' = n_frames) =>
          /\ pc_cam' = "read"
          /\ UNCHANGED <<synced_imu, latest_rgb, latest_depth_float, latest_imu_buffer,
                         last_imu_ts>>
          /\ UNCHANGED <<dist, timestamp, imu_list, synced>>
          /\ UNCHANGED <<h_depth_published, h_bundle_cycle>>]_vars
  /\ [](h_read_failed => pc_cam = "read")

\* C22 witness: a read has failed after a completed cycle, the fields published by
\* that cycle are in place and camera_loop is at the read again.
C22_Witness ==
  /\ h_read_failed
  /\ pc_cam = "read"
  /\ n_frames = 1
  /\ h_bundle_cycle = 1
  /\ latest_rgb = Jpeg(1)
  /\ latest_depth_float = DistMap(1)


\* C23 (queries are pure reads and writers are exclusive): a step of a query handler
\* leaves imu_buffer, synced_imu, latest_rgb and latest_depth_float unchanged;
\* imu_buffer is changed by no step but imu_reader's append; the published frame, the
\* published distance map and the bundle history are changed by no step but
\* camera_loop's.
C23_PureReads ==
  [][/\ (pc_q' # pc_q) =>
          UNCHANGED <<imu_buffer, synced_imu, latest_rgb, latest_depth_float>>
     /\ (imu_buffer' # imu_buffer) => (pc_imu = "append" /\ pc_imu' = "read")
     /\ (latest_rgb' # latest_rgb \/ latest_depth_float' # latest_depth_float
           \/ synced_imu' # synced_imu) => pc_cam' # pc_cam]_vars


\* The frame cycles that have appended their bundle, counted from the position of
\* camera_loop: the cycle in progress has not before line 113, and a cycle that
\* failed never does
CompletedCycles ==
  IF pc_cam \in {"last", "sleep", "read"} THEN n_frames ELSE n_frames - 1

\* C24 (bundles are created once per frame and immutable): every completed frame
\* cycle has appended exactly one bundle, made of the cycle's timestamp and sample
\* list; the append keeps every bundle that stays in the history as it was; and no
\* other step changes the history, whatever imu_reader appends to or evicts from
\* imu_buffer and whatever later cycles publish.
C24_BundlesImmutable ==
  /\ [](h_bundle_cycle = CompletedCycles)
  /\ [][IF pc_cam = "hist" /\ pc_cam' = "last"
          THEN LET n  == Len(synced_imu)
                   n1 == Len(synced_imu')
               IN /\ h_bundle_cycle' = h_bundle_cycle + 1
                  /\ n1 = Min(n + 1, C_hist)
                  /\ synced_imu'[n1] = <<timestamp, synced>>
                  /\ \A i \in 1..(n1 - 1) : synced_imu'[i] = synced_imu[i + n + 1 - n1]
          ELSE /\ synced_imu' = synced_imu
               /\ h_bundle_cycle' = h_bundle_cycle]_vars

\* C24 witness: the bundle of the first cycle is in the history with a sample that
\* imu_buffer has evicted since, and the second cycle has published its frame.
C24_Witness ==
  /\ h_bundle_cycle = 1
  /\ synced_imu # <<>>
  /\ \E j \in 1..Len(synced_imu[1][2]) :
       \A k \in 1..Len(imu_buffer) : imu_buffer[k] # synced_imu[1][2][j]
  /\ latest_rgb = Jpeg(2)


\* C25 (fixed frame period): after a successful cycle camera_loop sleeps the
\* remainder of the period, SLEEP_TIME minus the time the iteration has taken so far,
\* so that when the work took less than the period and the sleep returned on time the
\* next iteration starts one period after the start of this one.
C25_FixedPeriod ==
  /\ (pc_loop = "sleep" /\ sleep_start - iter_start < SLEEP_TIME) =>
       sleep_for = SLEEP_TIME - (sleep_start - iter_start)
  /\ (pc_loop = "read" /\ h_last # NoCycle /\ h_last.work < SLEEP_TIME /\ h_last.late = 0) =>
       iter_start - h_last.start = SLEEP_TIME


\* The threads of the audio process that are inside a with _state_lock block, where
\* every statement that reads or writes _latest or _is_playing is: the handlers
\* (lines 91-103, 110-120, 172-180, 187-190, 219-229) and the watchdog (lines 200-212)
InStateAccess ==
  (IF pc_req = "apply" THEN {"req"} ELSE {}) \cup (IF pc_wd = "check" THEN {"wd"} ELSE {})

\* C26 (shared audio state is lock-guarded, src/soundloc.py): a thread that is at a
\* read or write of _latest or _is_playing holds _state_lock, so no two threads are
\* there at once; _latest, _is_playing and the playback change only in a step of the
\* thread that holds the lock, which releases it with the update complete; and what
\* /collision_state returns is _latest as it is while the handler holds the lock.
C26_LockGuarded ==
  /\ [](\A t \in InStateAccess : state_lock = t)
  /\ [](Cardinality(InStateAccess) <= 1)
  /\ [](state_lock \in {"free", "req", "wd"})
  /\ [][(latest' # latest \/ is_playing' # is_playing \/ src_playing' # src_playing) =>
          /\ state_lock \in InStateAccess
          /\ state_lock' = "free"
          /\ state_lock = "req" => (pc_req' = "idle" /\ UNCHANGED <<pc_wd, wd_now>>)
          /\ state_lock = "wd" => (pc_wd' = "sleep" /\ UNCHANGED <<pc_req, req, snd_resp>>)]_vars
  /\ [][(pc_req = "apply" /\ pc_req' = "idle" /\ req.op = "state") =>
          /\ state_lock = "req"
          /\ snd_resp' = SndResponse(200, latest.state, latest.hit, latest.nearest)
          /\ UNCHANGED <<latest, is_playing, src_playing, src_pos>>]_vars

\* C26 witness: a handler is in its with block with a contact to apply over the
\* contact in place, while the watchdog, woken after the TTL, waits for the lock.
C26_Witness ==
  /\ pc_req = "apply"
  /\ req.op = "contact"
  /\ latest.state = "contact"
  /\ req.pos # latest.nearest
  /\ pc_wd = "lock"
  /\ Expired(wd_now, latest)


\* A POST /collision_event whose type is neither "contact" nor "none", or whose first
\* contact has no pos or position of 3 elements
RejectedEvent(h) ==
  /\ h.route = "/collision_event"
  /\ \/ h.type \notin {"contact", "none"}
     \/ h.type = "contact" /\ h.contacts # <<>> /\ h.contacts[1].pos.n # 3

\* C27 (rejected collision events change nothing, src/soundloc.py): the handler's step
\* on a rejected POST /collision_event answers 400, ends the request and leaves
\* _latest, _is_playing, the playback and the source position unchanged; a "contact"
\* event with an empty contacts list goes on as "none" and is applied as such.
C27_RejectedChangeNothing ==
  /\ [][(pc_req = "route" /\ pc_req' # "route" /\ RejectedEvent(http)) =>
          /\ snd_resp'.status = 400
          /\ pc_req' = "idle"
          /\ UNCHANGED <<latest, is_playing, src_playing, src_pos, state_lock>>]_vars
  /\ [][(pc_req = "route" /\ pc_req' # "route" /\ ~RejectedEvent(http)) =>
          (pc_req' = "lock" /\ snd_resp'.status # 400)]_vars
  /\ [][(pc_req = "route" /\ pc_req' # "route" /\ http.route = "/collision_event"
           /\ http.type = "contact" /\ http.contacts = <<>>) =>
          req' = [op |-> "none", pos |-> NoNearest]]_vars
  /\ [][(pc_req = "apply" /\ pc_req' = "idle" /\ req.op = "none") =>
          /\ latest' = Latest("none", FALSE, NoNearest, snd_now)
          /\ ~is_playing' /\ ~src_playing'
          /\ snd_resp'.status = 200]_vars

\* C27 witness: an event has been answered 400 while a contact was in place, the
\* sound playing and the source moved to the contact's position.
C27_Witness ==
  /\ snd_resp.status = 400
  /\ pc_req = "idle"
  /\ latest.state = "contact"
  /\ is_playing /\ src_playing
  /\ src_pos = latest.nearest


\* C28 (playback matches state, src/soundloc.py): in every reachable state
\* _is_playing is True if and only if _latest["state"] is "contact".
C28_PlaybackMatchesState == is_playing <=> latest.state = "contact"


\* The fields of _latest that tell whether there is a contact, and where
RecordConsistent ==
  /\ latest.state \in {"contact", "none"}
  /\ latest.hit <=> latest.state = "contact"
  /\ latest.nearest = NoNearest <=> latest.state = "none"

\* C29 as stated (collision record consistency, src/soundloc.py): hit is True exactly
\* when state is "contact", nearest is None exactly when state is "none", and every
\* step that changes one of state, hit and nearest changes all three.
C29_ChangeTogetherAsStated ==
  /\ []RecordConsistent
  /\ [][(latest'.state # latest.state \/ latest'.hit # latest.hit
           \/ latest'.nearest # latest.nearest) =>
          (latest'.state # latest.state /\ latest'.hit # latest.hit
             /\ latest'.nearest # latest.nearest)]_vars

\* C29 (collision record consistency, src/soundloc.py): hit is True exactly when state
\* is "contact" and nearest is None exactly when state is "none"; a step that changes
\* state or hit changes state, hit and nearest; nearest changes alone only when a
\* contact handler replaces the position of a contact already in place.
C29_RecordConsistency ==
  /\ []RecordConsistent
  /\ [][(latest'.state # latest.state \/ latest'.hit # latest.hit) =>
          (latest'.state # latest.state /\ latest'.hit # latest.hit
             /\ latest'.nearest # latest.nearest)]_vars
  /\ [][(latest'.nearest # latest.nearest /\ latest'.state = latest.state) =>
          /\ pc_req = "apply" /\ req.op = "contact"
          /\ latest.state = "contact" /\ latest'.hit
          /\ latest'.nearest = req.pos]_vars

\* C29 witness: a contact is in place at a position other than the one the source was
\* last moved toward by an earlier contact, and the handler has answered.
C29_Witness ==
  /\ latest.state = "contact" /\ latest.hit
  /\ latest.nearest \in Positions
  /\ src_pos \in Positions /\ src_pos # latest.nearest
  /\ pc_req = "idle" /\ snd_resp.status = 200


\* C30 (the fixed-point encoding of the distance map does not overflow): for every
\* distance map returned by depth_to_distance with MIN_DIST and MAX_DIST, each
\* millimetre value distance * 1000 of frame_depth_raw lies in [1000, 5000], and the
\* uint16 entry is that value: nothing wraps around.
C30_NoOverflow ==
  /\ pc_depth = "returned" /\ distance # NoArray =>
       \A i \in 1..Len(distance) :
         /\ Scaled(distance[i], 1000) >= 1000 * MIN_DIST
         /\ Scaled(distance[i], 1000) <= 1000 * MAX_DIST
         /\ Scaled(distance[i], 1000) < 65536
  /\ pc_depth = "encoded" =>
       /\ Len(depth_16) = Len(distance)
       /\ \A i \in 1..Len(depth_16) :
            /\ depth_16[i] = Scaled(distance[i], 1000)
            /\ depth_16[i] >= 1000 /\ depth_16[i] <= 5000
            /\ depth_map[i] = ArrayMin(depth_map) => depth_16[i] = 5000

\* C30 witness: frame_depth_raw has encoded the distance map of the frame
\* [0.0, 1e-8, 5.0] as 5000, 4999 and 1000 millimetres.
C30_Witness ==
  /\ pc_depth = "encoded"
  /\ depth_map = <<0, EPS, 5 * RAW_ONE>>
  /\ depth_16 = <<5000, 4999, 1000>>


\* The capture threads that are executing capture_loop
InCaptureLoop ==
  { t \in CaptureThreads :
      pc_capture[t] \in {"test", "test_cap", "test_open", "read", "show", "sleep"} }

\* C31 (single capture thread per preview, src/scan-cam.py): for any sequence of
\* toggle_preview calls on a widget, at most one of its capture_loop threads is
\* executing its loop at any time: a thread started before a stop_preview is not
\* running any more once a later start_preview has started the next one.
C31_SingleCaptureThread == Cardinality(InCaptureLoop) <= 1


\* No two entries of scanner.sources have the same index
DistinctIndices(l) ==
  \A i, j \in 1..Len(l) : l[i].index = l[j].index => i = j

\* C32 (scan results under stop and restart, src/scan-cam.py): for any interleaving
\* of start_scan and stop_scan, at most one scan_sources execution is active on the
\* scanner at a time, scanner.sources never holds two entries with the same index, and
\* a scan is ended early only by a stop_scan issued for that scan.
C32_ScanExclusive ==
  /\ Cardinality({ t \in ScanThreads : InScanSources(t) }) <= 1
  /\ DistinctIndices(lists[sources])
  /\ \A t \in ScanThreads : h_early[t] => h_stop_for[t]


====
